---- MODULE Spec2Model ----
(***************************************************************************)
(* Query-cache engine of rtk-query: the thunk pipeline (run condition,     *)
(* executeEndpoint, error classification), the tag/invalidation engine and *)
(* the subscription/eviction tracker, as one state machine.                *)
(*                                                                         *)
(* Values that may be undefined in the source are sequences of length 0    *)
(* (undefined) or 1 (the value).  Timestamps and request ids use 0 for     *)
(* undefined, which is also falsy in the source.  Numbers of seconds are   *)
(* kept in thousandths (fixed point) so that 0.5 s is representable.       *)
(***************************************************************************)
EXTENDS Integers, Sequences, FiniteSets, TLC

(* ---------------------------------------------------------------- bounds *)
MaxRequests == 2
MaxPostsRequests == 3
MaxTicks == 1
MaxEntityRequests == 1
MaxItems == 2

(* ------------------------------------------------------------- constants *)
StartNow == 1000
TickMs == 510
MsPerSecond == 1000
FixedPoint == 1000
NoId == 0
GenericError == 0 - 1
ThrownError == 0 - 2

(* ------------------------------------------------------------ JS values *)
Undefined == <<>>
Some(v) == <<v>>
IsDefined(o) == Len(o) = 1

JsUndef == [t |-> "undef", b |-> FALSE, n |-> 0]
JsBool(b) == [t |-> "bool", b |-> b, n |-> 0]
JsNum(n) == [t |-> "num", b |-> FALSE, n |-> n]
Truthy(v) == (v.t = "bool" /\ v.b) \/ (v.t = "num" /\ v.n # 0)
Nullish(a, b) == IF a.t = "undef" THEN b ELSE a
JsAnd(a, b) == IF Truthy(a) THEN b ELSE a

(* ------------------------------------------------- endpoint definitions *)
\* the api fixtures: one store holds one api ("mixed" has the endpoints of
\* both test apis but logout, so that tags of two types meet; "lifecycle" is
\* the api whose endpoints declare onStart, onSuccess and onError; "entities"
\* is the api whose endpoints use the entity type Users, registered or not;
\* "transform" is the api whose endpoints declare transformResponse, but echo;
\* "users" is the api of the hook tests, whose query takes a user id)
Apis == {"session", "posts", "mixed", "lifecycle", "entities", "transform", "users"}
QueryEndpointsOf(a) ==
  CASE a = "session" -> {"checkSession"}
    [] a = "posts" -> {"getPosts"}
    [] a = "mixed" -> {"checkSession", "getPosts"}
    [] a = "lifecycle" -> {"query"}
    [] a = "transform" -> {"queryWithMeta"}
    [] a = "users" -> {"getUser"}
    [] OTHER -> {"provideWrongTypeString", "provideWrongTypeWithIdAndCallback"}
MutationEndpointsOf(a) ==
  CASE a = "session" -> {"login", "logout"}
    [] a = "posts" -> {"updatePost", "addPost"}
    [] a = "mixed" -> {"login", "updatePost", "addPost"}
    [] a = "lifecycle" -> {"mutation"}
    [] a = "transform" -> {"echo", "mutationWithMeta"}
    [] a = "users" -> {"updateUser"}
    [] OTHER -> {"invalidateWrongTypeString", "invalidateWrongTypeWithIdAndCallback"}
\* createApi({ entityTypes })
EntityTypesOf(a) ==
  CASE a = "session" -> {"User"}
    [] a = "posts" -> {"Posts"}
    [] a = "mixed" -> {"User", "Posts"}
    [] a \in {"lifecycle", "transform", "users"} -> {}
    [] OTHER -> {"User"}
\* enhanceEndpoints({ addEntityTypes })
AddedEntityTypes == {{"Users"}}
QueryEndpoints == UNION {QueryEndpointsOf(a) : a \in Apis}
MutationEndpoints == UNION {MutationEndpointsOf(a) : a \in Apis}
Endpoints == QueryEndpoints \cup MutationEndpoints
PostIds == {1}
UserId == 5
MetaKey == 7
DataVals == {{1}, {2}}
ErrorVals == {500}
MetaVals == {"meta"}
NoArg == 0

\* endpoints that declare the three lifecycle hooks; each hook dispatches what
\* it was handed, and onStart writes the request id into its context
HasHooks(ep) == ep \in {"query", "mutation"}
\* endpoints whose settled execution is noted in `trace`
Traced(ep) == HasHooks(ep) \/ ep \in {"queryWithMeta", "echo", "mutationWithMeta"}
\* what the request builder of an endpoint can do: return a request, or throw
BuilderOutcomes(ep) == IF HasHooks(ep) THEN {"request", "throw"} ELSE {"request"}
\* where an execution of the endpoint can throw: `() => '/me'` and the default
\* response transform never do
ThrowStages(ep) ==
  IF HasHooks(ep) THEN {"builder", "transport", "transform"} ELSE {"transport"}

\* dispatches of the store one component uses
MaxTriggers == 3
\* calls of setupListeners one page makes
MaxSetups == 3

ArgsOf(ep) == IF ep = "updatePost" THEN PostIds ELSE {NoArg}
\* the arguments the queries of an endpoint are made with: user ids, or none
UserIds == {1, 2}
QueryArgsOf(ep) == IF ep = "getUser" THEN UserIds ELSE {NoArg}

Str(type) == [str |-> TRUE, type |-> type, id |-> NoId]
Obj(type, id) == [str |-> FALSE, type |-> type, id |-> id]

DescriptorKind(ep, which) ==
  CASE ep = "checkSession" /\ which = "provides" -> "list"
    [] ep = "getPosts" /\ which = "provides" -> "function"
    [] ep = "login" /\ which = "invalidates" -> "list"
    [] ep = "updatePost" /\ which = "invalidates" -> "function"
    [] ep = "addPost" /\ which = "invalidates" -> "list"
    [] ep = "logout" /\ which = "invalidates" -> "function"
    [] ep = "provideWrongTypeString" /\ which = "provides" -> "list"
    [] ep = "provideWrongTypeWithIdAndCallback" /\ which = "provides" -> "function"
    [] ep = "invalidateWrongTypeString" /\ which = "invalidates" -> "list"
    [] ep = "invalidateWrongTypeWithIdAndCallback" /\ which = "invalidates" -> "function"
    [] OTHER -> "absent"

DescriptorList(ep) ==
  CASE ep \in {"checkSession", "login"} -> <<Str("User")>>
    [] ep = "addPost" -> <<Str("Posts")>>
    [] ep \in {"provideWrongTypeString", "invalidateWrongTypeString"} -> <<Str("Users")>>
    [] OTHER -> <<>>

SetToSeq(S) ==
  LET RECURSIVE Build(_)
      Build(T) == IF T = {} THEN <<>>
                  ELSE LET x == CHOOSE y \in T : \A z \in T : y <= z
                       IN <<x>> \o Build(T \ {x})
  IN Build(S)

DescriptorFn(ep, result, error, arg) ==
  CASE ep = "getPosts" ->
         IF IsDefined(result)
         THEN LET ids == SetToSeq(result[1])
              IN [i \in 1..Len(ids) |-> Obj("Posts", ids[i])]
         ELSE <<>>
    [] ep = "updatePost" -> <<Obj("Posts", arg)>>
    [] ep = "logout" -> IF IsDefined(error) THEN <<>> ELSE <<Str("User")>>
    [] ep \in {"provideWrongTypeWithIdAndCallback", "invalidateWrongTypeWithIdAndCallback"} ->
         <<Obj("Users", UserId)>>
    [] OTHER -> <<>>

(* --------------------------------------------------- calculateProvidedBy *)
\* faulty variant: an object description is cut down to its type
expandEntityDescriptionTypeOnly(description) ==
  [type |-> description.type, id |-> NoId]
expandEntityDescription(description) ==
  IF description.str THEN [type |-> description.type, id |-> NoId]
  ELSE [type |-> description.type, id |-> description.id]

calculateProvidedBy(ep, which, result, error, queryArg) ==
  LET kind == DescriptorKind(ep, which)
      raw == IF kind = "function" THEN DescriptorFn(ep, result, error, queryArg)
             ELSE IF kind = "list" THEN DescriptorList(ep)
             ELSE <<>>
  IN [i \in 1..Len(raw) |-> expandEntityDescription(raw[i])]

\* the calls `description(result, error, queryArg)` one evaluation makes
descriptionCalls(ep, which, result, error, queryArg) ==
  IF DescriptorKind(ep, which) = "function"
  THEN <<[result |-> result, error |-> error, queryArg |-> queryArg]>>
  ELSE <<>>

\* faulty variant: always reads the `provides` descriptor
calculateProvidedByThunkProvides(action, which) ==
  calculateProvidedBy(action.endpointName, "provides",
    IF action.type = "fulfilled" THEN action.payload ELSE Undefined,
    IF action.type = "rejected" /\ action.withValue THEN action.payload ELSE Undefined,
    action.originalArgs)

\* faulty variant: evaluates the descriptor for fulfilled actions only
calculateProvidedByThunkFulfilledOnly(action, which) ==
  IF action.type = "fulfilled"
  THEN calculateProvidedBy(action.endpointName, which, action.payload, Undefined,
                           action.originalArgs)
  ELSE <<>>

\* faulty variant: the error payload of a rejected action is not handed on
calculateProvidedByThunkNoError(action, which) ==
  calculateProvidedBy(action.endpointName, which,
    IF action.type = "fulfilled" THEN action.payload ELSE Undefined,
    Undefined,
    action.originalArgs)

calculateProvidedByThunk(action, which) ==
  calculateProvidedBy(action.endpointName, which,
    IF action.type = "fulfilled" THEN action.payload ELSE Undefined,
    IF action.type = "rejected" /\ action.withValue THEN action.payload ELSE Undefined,
    action.originalArgs)

Range(s) == {s[i] : i \in 1..Len(s)}

\* faulty variant: an unregistered type is passed without a message
assertEntityTypeSilent(entityTypes, tag) == {}
\* the types named by the error messages asserting one tag reports
assertEntityType(entityTypes, tag) ==
  IF tag.type \in entityTypes THEN {} ELSE {tag.type}
\* `.map(assertEntityTypes)`: the messages for a list of tags
Reports(entityTypes, tags) == UNION {assertEntityType(entityTypes, tags[i]) : i \in 1..Len(tags)}

(* ------------------------------------------------------------ cache keys *)
Keys == {"checkSession(0)", "getPosts(0)", "query(0)", "provideWrongTypeString(0)",
         "provideWrongTypeWithIdAndCallback(0)", "queryWithMeta(0)", "getUser(1)",
         "getUser(2)"}
KeyOrder == <<"checkSession(0)", "getPosts(0)", "query(0)", "provideWrongTypeString(0)",
              "provideWrongTypeWithIdAndCallback(0)", "queryWithMeta(0)", "getUser(1)",
              "getUser(2)">>
serializeQueryArgs(ep, arg) ==
  CASE ep = "checkSession" -> "checkSession(0)"
    [] ep = "getPosts" -> "getPosts(0)"
    [] ep = "provideWrongTypeString" -> "provideWrongTypeString(0)"
    [] ep = "provideWrongTypeWithIdAndCallback" -> "provideWrongTypeWithIdAndCallback(0)"
    [] ep = "queryWithMeta" -> "queryWithMeta(0)"
    [] ep = "getUser" -> IF arg = 2 THEN "getUser(2)" ELSE "getUser(1)"
    [] OTHER -> "query(0)"
KeysOf(a) ==
  UNION {{serializeQueryArgs(ep, arg) : arg \in QueryArgsOf(ep)} : ep \in QueryEndpointsOf(a)}
EndpointOfKey(k) ==
  CASE k = "checkSession(0)" -> "checkSession"
    [] k = "getPosts(0)" -> "getPosts"
    [] k = "provideWrongTypeString(0)" -> "provideWrongTypeString"
    [] k = "provideWrongTypeWithIdAndCallback(0)" -> "provideWrongTypeWithIdAndCallback"
    [] k = "queryWithMeta(0)" -> "queryWithMeta"
    [] k \in {"getUser(1)", "getUser(2)"} -> "getUser"
    [] OTHER -> "query"
\* originalArgs of the entry of a key
ArgOfKey(k) == IF k = "getUser(2)" THEN 2 ELSE IF k = "getUser(1)" THEN 1 ELSE NoArg

(* ------------------------------------------------- cache key serializer *)
\* a query argument: a number, or a plain object whose properties are kept in
\* insertion order and hold numbers or plain objects
Num(n) == [kind |-> "number", num |-> n, props |-> <<>>]
PlainObject(props) == [kind |-> "object", num |-> 0, props |-> props]
Prop(key, value) == [key |-> key, value |-> value]
isPlainObject(value) == value.kind = "object"
\* the property names, in the order Array.prototype.sort puts them
PropNames == <<"a", "b">>
Numbers == {Num(0), Num(1)}
\* the plain objects whose property values are drawn from values
ObjectsOver(values) ==
  {PlainObject(<<>>)}
  \cup {PlainObject(<<Prop(PropNames[i], v)>>) : i \in DOMAIN PropNames, v \in values}
  \cup {PlainObject(<<Prop(PropNames[i], v), Prop(PropNames[j], w)>>) :
          <<i, j, v, w>> \in {t \in (DOMAIN PropNames) \X (DOMAIN PropNames) \X values \X values :
                                t[1] # t[2]}}
QueryArgs == Numbers \cup ObjectsOver(Numbers \cup ObjectsOver(Numbers))
\* endpoint names, one a prefix of another
EndpointNames == {"getPost", "getPosts"}

\* Object.keys(value).sort(): the properties in the order of their names
SortedProps(props) ==
  LET RECURSIVE Pick(_)
      Pick(names) ==
        IF Len(names) = 0 THEN <<>>
        ELSE SelectSeq(props, LAMBDA p : p.key = Head(names)) \o Pick(Tail(names))
  IN Pick(PropNames)

RECURSIVE stringify(_, _)
\* JSON.stringify(value, replacer), the replacer putting the properties of the
\* plain objects it is handed (those of depth <= sortDepth) in sorted order
stringify(value, sortDepth) ==
  IF ~isPlainObject(value) THEN ToString(value.num)
  ELSE LET props == IF sortDepth > 0 THEN SortedProps(value.props) ELSE value.props
           RECURSIVE Members(_)
           Members(i) ==
             IF i > Len(props) THEN ""
             ELSE (IF i > 1 THEN "," ELSE "")
                  \o "\"" \o props[i].key \o "\":"
                  \o stringify(props[i].value, sortDepth - 1)
                  \o Members(i + 1)
       IN "{" \o Members(1) \o "}"

\* the nesting depth the arguments reach
ArgDepth == 2
\* faulty variant: only the properties of the argument itself are sorted
defaultSerializeQueryArgsShallow(endpointName, queryArgs) ==
  endpointName \o "(" \o stringify(queryArgs, 1) \o ")"
\* `${endpointName}(${JSON.stringify(queryArgs, sorting replacer)})`
defaultSerializeQueryArgs(endpointName, queryArgs) ==
  endpointName \o "(" \o stringify(queryArgs, ArgDepth) \o ")"

RECURSIVE StructurallyEqual(_, _)
\* a and b are the same value but for the order their properties were inserted in
StructurallyEqual(a, b) ==
  /\ a.kind = b.kind
  /\ a.num = b.num
  /\ Len(a.props) = Len(b.props)
  /\ \A i \in DOMAIN a.props :
        \E j \in DOMAIN b.props :
           /\ a.props[i].key = b.props[j].key
           /\ StructurallyEqual(a.props[i].value, b.props[j].value)

\* no call of the serializer is being looked at
NoSerialization == [called |-> FALSE, endpointName |-> "", queryArgs |-> Num(0), key |-> ""]

\* no call of calculateProvidedBy is being looked at
NoCalculation ==
  [called |-> FALSE, endpointName |-> "", which |-> "", result |-> Undefined,
   error |-> Undefined, queryArg |-> NoArg, invoked |-> <<>>, tags |-> <<>>]

\* the events setupListeners listens to
WindowEvents == {"visibilitychange", "focus", "online", "offline"}
\* a window without listeners, before any call of setupListeners: `registered`
\* names, per event, the calls whose handler is registered; `returned` and
\* `unsubscribed` the calls whose unsubscribe function was returned and called
NoListeners ==
  [initialized |-> FALSE, calls |-> 0, registered |-> [e \in WindowEvents |-> {}],
   returned |-> {}, unsubscribed |-> {}, event |-> "", dispatched |-> 0]

NoEntry ==
  [exists |-> FALSE, status |-> "uninitialized", data |-> Undefined,
   error |-> Undefined, requestId |-> 0, startedTimeStamp |-> 0,
   fulfilledTimeStamp |-> 0]

VARIABLES
  queries,        \* cache-entry table: key -> entry
  provided,       \* provided-tag index: key -> set of tags
  subscriptions,  \* key -> set of subscriber ids (request ids)
  evictTimer,     \* key -> an eviction timer is running
  running,        \* executions whose transport call is in flight
  recording,      \* the store was set up with the `actions` reducer
  log,            \* actions dispatched into the store, in order (when recording)
  now,            \* Date.now()
  nextId,         \* next request id
  limit,          \* callers dispatch only while nextId <= limit
  api,            \* the api fixture of this store
  config,         \* api-wide refetchOnMountOrArgChange
  baseQueryCalls, \* number of transport invocations
  evictedInFlight,\* ids of the executions in flight whose entry was evicted under them
  discarded,      \* ids of executions whose terminal action the reducer ignored
  cacheHit,       \* a dispatch that asked for no refetch was served from a fulfilled entry
  trace,          \* what the hooks and the transport of the execution settled last noted
  contexts,       \* the context objects' contents: pairs <<object, value written>>
  entityTypes,    \* the entity types the api has registered
  reported,       \* the types named by the error messages reported so far
  patched,        \* what the last updateQueryResult returned, called and dispatched
  subscriptionOptions, \* key -> the options of each of its subscriptions
  effective,      \* key -> the merged options the tracker acts on
  serialized,     \* a call of the cache key serializer: its inputs and the key returned
  component,      \* a component using a query hook: its props, refs and last render
  calculated,     \* a call of calculateProvidedBy: its inputs, the descriptor's calls, the tags
  listeners       \* the window's event listeners and the setupListeners calls made

vars == <<queries, provided, subscriptions, evictTimer, running, recording, log, now,
          nextId, limit, api, config, baseQueryCalls, evictedInFlight, discarded,
          cacheHit, trace, contexts, entityTypes, reported, patched,
          subscriptionOptions, effective, serialized, component, calculated,
          listeners>>

(* ------------------------------------------------- queryThunk condition *)
ToSeconds(ms) == (ms * FixedPoint) \div MsPerSecond

\* faulty variant: the in-flight check is missing
conditionNoPending(requestState, baseFetchOnMountOrArgChange, forceRefetch, subscribe, nowv) ==
  LET fulfilledVal == requestState.fulfilledTimeStamp
      refetchVal == Nullish(forceRefetch, JsAnd(JsBool(subscribe), baseFetchOnMountOrArgChange))
  IN IF fulfilledVal # 0
     THEN IF Truthy(refetchVal)
          THEN refetchVal = JsBool(TRUE)
               \/ (refetchVal.t = "num" /\ ToSeconds(nowv - fulfilledVal) >= refetchVal.n)
          ELSE FALSE
     ELSE TRUE

\* faulty variant: a cached value without a refetch request is fetched again
conditionAlwaysRefetch(requestState, baseFetchOnMountOrArgChange, forceRefetch, subscribe, nowv) ==
  requestState.status # "pending"

\* faulty variant: `refetchVal === true ||` is missing, true is compared as a number
conditionNoTrue(requestState, baseFetchOnMountOrArgChange, forceRefetch, subscribe, nowv) ==
  LET fulfilledVal == requestState.fulfilledTimeStamp
      refetchVal == Nullish(forceRefetch, JsAnd(JsBool(subscribe), baseFetchOnMountOrArgChange))
      asNumber == IF refetchVal.t = "num" THEN refetchVal.n ELSE FixedPoint
  IN IF requestState.status = "pending" THEN FALSE
     ELSE IF fulfilledVal # 0
          THEN IF Truthy(refetchVal)
               THEN ToSeconds(nowv - fulfilledVal) >= asNumber
               ELSE FALSE
          ELSE TRUE

\* faulty variant: a requested refetch counts only for a subscribing dispatch
conditionForceNeedsSubscribe(requestState, baseFetchOnMountOrArgChange, forceRefetch, subscribe, nowv) ==
  LET fulfilledVal == requestState.fulfilledTimeStamp
      refetchVal == JsAnd(JsBool(subscribe), Nullish(forceRefetch, baseFetchOnMountOrArgChange))
  IN IF requestState.status = "pending" THEN FALSE
     ELSE IF fulfilledVal # 0
          THEN IF Truthy(refetchVal)
               THEN refetchVal = JsBool(TRUE)
                    \/ (refetchVal.t = "num" /\ ToSeconds(nowv - fulfilledVal) >= refetchVal.n)
               ELSE FALSE
          ELSE TRUE

\* faulty variant: the api-wide default of a subscribing dispatch comes first
conditionDefaultFirst(requestState, baseFetchOnMountOrArgChange, forceRefetch, subscribe, nowv) ==
  LET fulfilledVal == requestState.fulfilledTimeStamp
      refetchVal == IF subscribe /\ baseFetchOnMountOrArgChange # JsUndef
                    THEN baseFetchOnMountOrArgChange ELSE forceRefetch
  IN IF requestState.status = "pending" THEN FALSE
     ELSE IF fulfilledVal # 0
          THEN IF Truthy(refetchVal)
               THEN refetchVal = JsBool(TRUE)
                    \/ (refetchVal.t = "num" /\ ToSeconds(nowv - fulfilledVal) >= refetchVal.n)
               ELSE FALSE
          ELSE TRUE

condition(requestState, baseFetchOnMountOrArgChange, forceRefetch, subscribe, nowv) ==
  LET fulfilledVal == requestState.fulfilledTimeStamp
      refetchVal == Nullish(forceRefetch, JsAnd(JsBool(subscribe), baseFetchOnMountOrArgChange))
  IN IF requestState.status = "pending" THEN FALSE
     ELSE IF fulfilledVal # 0
          THEN IF Truthy(refetchVal)
               THEN refetchVal = JsBool(TRUE)
                    \/ (refetchVal.t = "num" /\ ToSeconds(nowv - fulfilledVal) >= refetchVal.n)
               ELSE FALSE
          ELSE TRUE

\* faulty variant: a mutation already in flight with the same argument is not repeated
mutationConditionDedup(ep, arg, run) ==
  ~\E e \in run : e.thunk = "mutation" /\ e.endpointName = ep /\ e.originalArgs = arg

\* mutationThunk is created without a condition option
mutationCondition(ep, arg, run) == TRUE

(* ------------------------------------------------------- executeEndpoint *)
defaultTransformResponse(baseQueryReturnValue) == baseQueryReturnValue
\* what a transform returns: a value, or a promise of one
Value(v) == [promise |-> FALSE, value |-> v]
Promise(v) == [promise |-> TRUE, value |-> v]
Await(x) == x.value
\* `{ ...response, meta: {...} }`: the response with one more key when the
\* transport handed on its meta
Merged(data, meta) == Some(data[1] \cup (IF IsDefined(meta) THEN {MetaKey} ELSE {}))
\* the transformResponse an endpoint with `query` uses: its own (async for
\* queryWithMeta) or the default
transformResponse(ep, baseQueryReturnValue, meta) ==
  CASE ep = "queryWithMeta" -> Promise(Merged(baseQueryReturnValue, meta))
    [] ep = "mutationWithMeta" -> Value(Merged(baseQueryReturnValue, meta))
    [] OTHER -> Value(defaultTransformResponse(baseQueryReturnValue))

HandledError(value, meta) == [value |-> value, meta |-> meta]
\* a call of a hook with the value and the meta it is handed
HookCall(hook, value, meta) == [hook |-> hook, value |-> value, meta |-> meta]
\* the hooks the catch block calls for a thrown error
CaughtThrow == <<HookCall("onError", Some(ThrownError), Undefined)>>

\* faulty variant: `if (result.error) throw new HandledError(...)` is missing
executeEndpointNoErrorCheck(ep, result, nowv) ==
  IF result.kind = "throw"
  THEN [type |-> "rejected", withValue |-> FALSE, payload |-> Undefined, fulfilledTimeStamp |-> 0,
        hooks |-> CaughtThrow]
  ELSE [type |-> "fulfilled", withValue |-> FALSE,
        payload |-> Await(transformResponse(ep, result.data, result.meta)),
        fulfilledTimeStamp |-> nowv,
        hooks |-> <<HookCall("onSuccess", result.data, result.meta)>>]

\* faulty variant: the catch block forgets the HandledError's meta and payload
\* when it calls onError
executeEndpointOnErrorBare(ep, result, nowv) ==
  IF result.kind = "throw"
  THEN [type |-> "rejected", withValue |-> FALSE, payload |-> Undefined, fulfilledTimeStamp |-> 0,
        hooks |-> IF result.stage = "builder" THEN <<>>
                  ELSE IF result.stage = "transform"
                  THEN <<HookCall("onSuccess", result.raw, result.meta)>> \o CaughtThrow
                  ELSE CaughtThrow]
  ELSE IF IsDefined(result.error)
  THEN [type |-> "rejected", withValue |-> TRUE, payload |-> result.error, fulfilledTimeStamp |-> 0,
        hooks |-> CaughtThrow]
  ELSE [type |-> "fulfilled", withValue |-> FALSE,
        payload |-> Await(transformResponse(ep, result.data, result.meta)),
        fulfilledTimeStamp |-> nowv,
        hooks |-> <<HookCall("onSuccess", result.data, result.meta)>>]

\* faulty variant: every caught error is handed to rejectWithValue
executeEndpointRejectAllWithValue(ep, result, nowv) ==
  IF result.kind = "throw"
  THEN [type |-> "rejected", withValue |-> TRUE, payload |-> Some(ThrownError),
        fulfilledTimeStamp |-> 0,
        hooks |-> IF result.stage = "builder" THEN <<>>
                  ELSE IF result.stage = "transform"
                  THEN <<HookCall("onSuccess", result.raw, result.meta)>> \o CaughtThrow
                  ELSE CaughtThrow]
  ELSE IF IsDefined(result.error)
  THEN [type |-> "rejected", withValue |-> TRUE, payload |-> result.error, fulfilledTimeStamp |-> 0,
        hooks |-> <<HookCall("onError", result.error, result.meta)>>]
  ELSE [type |-> "fulfilled", withValue |-> FALSE,
        payload |-> Await(transformResponse(ep, result.data, result.meta)),
        fulfilledTimeStamp |-> nowv,
        hooks |-> <<HookCall("onSuccess", result.data, result.meta)>>]

\* faulty variant: the declared transformResponse is not used
executeEndpointNoTransform(ep, result, nowv) ==
  IF result.kind = "throw"
  THEN [type |-> "rejected", withValue |-> FALSE, payload |-> Undefined, fulfilledTimeStamp |-> 0,
        hooks |-> IF result.stage = "builder" THEN <<>>
                  ELSE IF result.stage = "transform"
                  THEN <<HookCall("onSuccess", result.raw, result.meta)>> \o CaughtThrow
                  ELSE CaughtThrow]
  ELSE IF IsDefined(result.error)
  THEN LET error == HandledError(result.error, result.meta)
       IN [type |-> "rejected", withValue |-> TRUE, payload |-> error.value,
           fulfilledTimeStamp |-> 0,
           hooks |-> <<HookCall("onError", error.value, error.meta)>>]
  ELSE [type |-> "fulfilled", withValue |-> FALSE,
        payload |-> defaultTransformResponse(result.data),
        fulfilledTimeStamp |-> nowv,
        hooks |-> <<HookCall("onSuccess", result.data, result.meta)>>]

\* the part of executeEndpoint after `await baseQuery(...)`; result is what the
\* execution met: data, an error value, or a throw (of the request builder,
\* whose onError ran within the dispatch, of the transport or of the transform)
executeEndpoint(ep, result, nowv) ==
  IF result.kind = "throw"
  THEN [type |-> "rejected", withValue |-> FALSE, payload |-> Undefined, fulfilledTimeStamp |-> 0,
        hooks |-> IF result.stage = "builder" THEN <<>>
                  ELSE IF result.stage = "transform"
                  THEN <<HookCall("onSuccess", result.raw, result.meta)>> \o CaughtThrow
                  ELSE CaughtThrow]
  ELSE IF IsDefined(result.error)
  THEN LET error == HandledError(result.error, result.meta)
       IN [type |-> "rejected", withValue |-> TRUE, payload |-> error.value,
           fulfilledTimeStamp |-> 0,
           hooks |-> <<HookCall("onError", error.value, error.meta)>>]
  ELSE [type |-> "fulfilled", withValue |-> FALSE,
        payload |-> Await(transformResponse(ep, result.data, result.meta)),
        fulfilledTimeStamp |-> nowv,
        hooks |-> <<HookCall("onSuccess", result.data, result.meta)>>]

TransportResults ==
  {[kind |-> "data", stage |-> "transport", data |-> Some(d), error |-> Undefined,
    meta |-> Some(m), raw |-> Some(d)] : d \in DataVals, m \in MetaVals}
  \cup {[kind |-> "error", stage |-> "transport", data |-> Undefined, error |-> Some(e),
         meta |-> Some(m), raw |-> Undefined] : e \in ErrorVals, m \in MetaVals}
  \cup {[kind |-> "throw", stage |-> st, data |-> Undefined, error |-> Undefined,
         meta |-> Undefined, raw |-> Undefined] : st \in {"builder", "transport"}}
  \cup {[kind |-> "throw", stage |-> "transform", data |-> Undefined, error |-> Undefined,
         meta |-> Some(m), raw |-> Some(d)] : d \in DataVals, m \in MetaVals}

(* ---------------------------------------------------------------- reducers *)
queryPending(entry, requestId, startedTimeStamp) ==
  [entry EXCEPT !.exists = TRUE, !.status = "pending", !.requestId = requestId,
                !.startedTimeStamp = startedTimeStamp]

\* faulty variant: the request identity is not compared
queryFulfilledNoIdCheck(entry, requestId, payload, fulfilledTimeStamp) ==
  IF ~entry.exists THEN entry
  ELSE [entry EXCEPT !.status = "fulfilled", !.data = payload, !.error = Undefined,
                     !.fulfilledTimeStamp = fulfilledTimeStamp]

\* faulty variant: a fulfilled action stores the result but leaves the status
queryFulfilledStillPending(entry, requestId, payload, fulfilledTimeStamp) ==
  IF ~entry.exists \/ entry.requestId # requestId THEN entry
  ELSE [entry EXCEPT !.data = payload, !.error = Undefined,
                     !.fulfilledTimeStamp = fulfilledTimeStamp]

queryFulfilled(entry, requestId, payload, fulfilledTimeStamp) ==
  IF ~entry.exists \/ entry.requestId # requestId THEN entry
  ELSE [entry EXCEPT !.status = "fulfilled", !.data = payload, !.error = Undefined,
                     !.fulfilledTimeStamp = fulfilledTimeStamp]

queryRejected(entry, requestId, isCondition, withValue, payload) ==
  IF ~entry.exists \/ isCondition \/ entry.requestId # requestId THEN entry
  ELSE [entry EXCEPT !.status = "rejected",
                     !.error = IF withValue THEN payload ELSE Some(GenericError)]

providedReducer(tags, entry, requestId, action) ==
  IF ~entry.exists \/ entry.requestId # requestId THEN tags
  ELSE IF action.type = "fulfilled" THEN Range(calculateProvidedByThunk(action, "provides"))
  ELSE tags \cup Range(calculateProvidedByThunk(action, "provides"))

(* --------------------------------------------------------------- actions log *)
\* the store's optional `actions` reducer appends every dispatched action
Record(lg, entry) == IF recording THEN Append(lg, entry) ELSE lg
LogEntry(type, thunk, ep, id, isCondition, payload) ==
  [type |-> type, thunk |-> thunk, endpointName |-> ep, requestId |-> id,
   condition |-> isCondition]

\* origin: who dispatched the thunk ("caller", or the kind of mutation result
\* whose invalidation made the middleware dispatch it)
\* faulty variant: one context object serves every execution
newContextShared(requestId) == 0
\* `const context = {}`: a fresh object, named after the execution that made it
newContext(requestId) == requestId

\* builder: what the request builder did ("request" or "throw"); trace: what
\* the hooks and the transport of the execution have noted so far
Execution(id, thunk, ep, key, arg, origin, builder) ==
  [id |-> id, thunk |-> thunk, endpointName |-> ep, queryCacheKey |-> key,
   originalArgs |-> arg, origin |-> origin, builder |-> builder,
   context |-> newContext(id), trace |-> <<>>]

\* a hook of the lifecycle api dispatches what it was handed and what it finds
\* in its context; the transport of that api notes its calls
TraceEvent(ev, value, meta, context) ==
  [ev |-> ev, value |-> value, meta |-> meta, context |-> context]
\* what a hook finds in context object c
Contents(ctx, c) == {p[2] : p \in {q \in ctx : q[1] = c}}
NoTrace ==
  [requestId |-> 0, endpointName |-> "", events |-> <<>>, type |-> "none",
   withValue |-> FALSE, payload |-> Undefined, concurrent |-> {}]

\* faulty variant: the request is built and the transport called before onStart
executeEndpointStartLate(ctx, calls, e) ==
  LET hooked == HasHooks(e.endpointName)
      seen == Contents(ctx, e.context)
      ctx1 == IF hooked THEN ctx \cup {<<e.context, e.id>>} ELSE ctx
      onStart == <<TraceEvent("onStart", Undefined, Undefined, seen)>>
      then == IF e.builder = "throw"
              THEN <<TraceEvent("onError", Some(ThrownError), Undefined, seen)>>
              ELSE <<TraceEvent("baseQuery", Undefined, Undefined, {})>>
  IN [e |-> IF hooked THEN [e EXCEPT !.trace = then \o onStart] ELSE e,
      ctx |-> ctx1,
      calls |-> IF e.builder = "throw" THEN calls ELSE calls + 1]

\* the part of executeEndpoint that runs within the dispatch: the context is
\* made, onStart is called, the request is built and the transport is called
executeEndpointStart(ctx, calls, e) ==
  LET hooked == HasHooks(e.endpointName)
      seen == Contents(ctx, e.context)
      ctx1 == IF hooked THEN ctx \cup {<<e.context, e.id>>} ELSE ctx
      onStart == <<TraceEvent("onStart", Undefined, Undefined, seen)>>
      then == IF e.builder = "throw"
              THEN <<TraceEvent("onError", Some(ThrownError), Undefined,
                                Contents(ctx1, e.context))>>
              ELSE <<TraceEvent("baseQuery", Undefined, Undefined, {})>>
  IN [e |-> IF hooked THEN [e EXCEPT !.trace = onStart \o then] ELSE e,
      ctx |-> ctx1,
      calls |-> IF e.builder = "throw" THEN calls ELSE calls + 1]

\* the hooks of the part after the await are called and the terminal action is
\* dispatched; the context object is dropped with the execution
executeEndpointFinish(tr, ctx, run, e, out) ==
  [tr |-> IF Traced(e.endpointName)
          THEN [requestId |-> e.id, endpointName |-> e.endpointName,
                events |-> e.trace \o
                           [i \in 1..Len(out.hooks) |->
                              TraceEvent(out.hooks[i].hook, out.hooks[i].value,
                                         out.hooks[i].meta, Contents(ctx, e.context))],
                type |-> out.type, withValue |-> out.withValue, payload |-> out.payload,
                concurrent |-> {o.id : o \in run \ {e}}]
          ELSE tr,
   ctx |-> IF \E o \in run \ {e} : o.context = e.context THEN ctx
           ELSE {p \in ctx : p[1] # e.context}]

(* ------------------------------------------ dispatch(queryThunk(...)) *)
\* the dispatch finds a fulfilled entry and asks for no refetch
ServedFromCache(entry, forceRefetch, subscribe) ==
  /\ entry.status = "fulfilled"
  /\ Nullish(forceRefetch, JsAnd(JsBool(subscribe), config)) \in {JsUndef, JsBool(FALSE)}

\* st bundles the parts of the state a thunk dispatch touches
Bundle == [q |-> queries, subs |-> subscriptions, run |-> running, lg |-> log,
           nid |-> nextId, calls |-> baseQueryCalls, hit |-> cacheHit, ctx |-> contexts]

\* faulty variant: onStart, the request builder and the transport run before
\* the run condition is looked at
dispatchQueryThunkStartFirst(st, ep, arg, forceRefetch, subscribe, origin, builder) ==
  LET key == serializeQueryArgs(ep, arg)
      id == st.nid
      run == condition(st.q[key], config, forceRefetch, subscribe, now)
      subs == IF subscribe THEN [st.subs EXCEPT ![key] = @ \cup {id}] ELSE st.subs
      started == executeEndpointStart(st.ctx, st.calls,
                                      Execution(id, "query", ep, key, arg, origin, builder))
  IN IF run
     THEN [q |-> [st.q EXCEPT ![key] = queryPending(@, id, now)],
           subs |-> subs,
           run |-> st.run \cup {started.e},
           lg |-> Record(st.lg, LogEntry("pending", "query", ep, id, FALSE, Undefined)),
           nid |-> id + 1,
           calls |-> started.calls,
           hit |-> st.hit,
           ctx |-> started.ctx]
     ELSE [st EXCEPT !.subs = subs,
                     !.hit = @ \/ ServedFromCache(st.q[key], forceRefetch, subscribe),
                     !.lg = Record(st.lg, LogEntry("rejected", "query", ep, id, TRUE, Undefined)),
                     !.nid = id + 1,
                     !.calls = started.calls,
                     !.ctx = started.ctx]

dispatchQueryThunk(st, ep, arg, forceRefetch, subscribe, origin, builder) ==
  LET key == serializeQueryArgs(ep, arg)
      id == st.nid
      run == condition(st.q[key], config, forceRefetch, subscribe, now)
      subs == IF subscribe THEN [st.subs EXCEPT ![key] = @ \cup {id}] ELSE st.subs
      started == executeEndpointStart(st.ctx, st.calls,
                                      Execution(id, "query", ep, key, arg, origin, builder))
  IN IF run
     THEN [q |-> [st.q EXCEPT ![key] = queryPending(@, id, now)],
           subs |-> subs,
           run |-> st.run \cup {started.e},
           lg |-> Record(st.lg, LogEntry("pending", "query", ep, id, FALSE, Undefined)),
           nid |-> id + 1,
           calls |-> started.calls,
           hit |-> st.hit,
           ctx |-> started.ctx]
     ELSE [st EXCEPT !.subs = subs,
                     !.hit = @ \/ ServedFromCache(st.q[key], forceRefetch, subscribe),
                     !.lg = Record(st.lg, LogEntry("rejected", "query", ep, id, TRUE, Undefined)),
                     !.nid = id + 1]

(* ------------------------------------------------------------ prefetchThunk *)
\* PrefetchOptions: { force?: boolean } | { ifOlderThan?: false | number },
\* an absent option is undefined; ifOlderThan is in seconds (0 and 0.5, in
\* thousandths)
Options(force, ifOlderThan) == [force |-> force, ifOlderThan |-> ifOlderThan]
NoOptions == Options(JsUndef, JsUndef)
PrefetchOptionVals ==
  {NoOptions, Options(JsBool(TRUE), JsUndef), Options(JsBool(FALSE), JsUndef),
   Options(JsUndef, JsBool(FALSE)), Options(JsUndef, JsNum(0)), Options(JsUndef, JsNum(500)),
   Options(JsBool(FALSE), JsNum(500)), Options(JsBool(TRUE), JsNum(500))}
hasTheForce(options) == options.force # JsUndef
hasMaxAge(options) == options.ifOlderThan # JsUndef

\* faulty variant: `force` is handed on as `queryAction(false)`
prefetchThunkForceIgnored(st, ep, arg, options, builder) ==
  LET force == JsAnd(JsBool(hasTheForce(options)), options.force)
      maxAge == JsAnd(JsBool(hasMaxAge(options)), options.ifOlderThan)
      lastFulfilledTs == st.q[serializeQueryArgs(ep, arg)].fulfilledTimeStamp
  IN IF Truthy(force)
     THEN dispatchQueryThunk(st, ep, arg, JsBool(FALSE), TRUE, "prefetch(force)", builder)
     ELSE IF Truthy(maxAge)
     THEN IF lastFulfilledTs = 0 \/ ToSeconds(now - lastFulfilledTs) >= maxAge.n
          THEN dispatchQueryThunk(st, ep, arg, JsBool(TRUE), TRUE, "prefetch(ifOlderThan)",
                                  builder)
          ELSE st
     ELSE dispatchQueryThunk(st, ep, arg, JsBool(FALSE), TRUE, "prefetch()", builder)

\* faulty variant: without options the query action is built with its default,
\* `queryAction()`
prefetchThunkDefaultForce(st, ep, arg, options, builder) ==
  LET force == JsAnd(JsBool(hasTheForce(options)), options.force)
      maxAge == JsAnd(JsBool(hasMaxAge(options)), options.ifOlderThan)
      lastFulfilledTs == st.q[serializeQueryArgs(ep, arg)].fulfilledTimeStamp
  IN IF Truthy(force)
     THEN dispatchQueryThunk(st, ep, arg, JsBool(TRUE), TRUE, "prefetch(force)", builder)
     ELSE IF Truthy(maxAge)
     THEN IF lastFulfilledTs = 0 \/ ToSeconds(now - lastFulfilledTs) >= maxAge.n
          THEN dispatchQueryThunk(st, ep, arg, JsBool(TRUE), TRUE, "prefetch(ifOlderThan)",
                                  builder)
          ELSE st
     ELSE dispatchQueryThunk(st, ep, arg, JsBool(TRUE), TRUE, "prefetch()", builder)

\* queryAction(force = true) is initiate(arg, { forceRefetch: force }), which
\* subscribes like every initiate that is not told otherwise
prefetchThunk(st, ep, arg, options, builder) ==
  LET force == JsAnd(JsBool(hasTheForce(options)), options.force)
      maxAge == JsAnd(JsBool(hasMaxAge(options)), options.ifOlderThan)
      lastFulfilledTs == st.q[serializeQueryArgs(ep, arg)].fulfilledTimeStamp
  IN IF Truthy(force)
     THEN dispatchQueryThunk(st, ep, arg, JsBool(TRUE), TRUE, "prefetch(force)", builder)
     ELSE IF Truthy(maxAge)
     THEN IF lastFulfilledTs = 0 \/ ToSeconds(now - lastFulfilledTs) >= maxAge.n
          THEN dispatchQueryThunk(st, ep, arg, JsBool(TRUE), TRUE, "prefetch(ifOlderThan)",
                                  builder)
          ELSE st
     ELSE dispatchQueryThunk(st, ep, arg, JsBool(FALSE), TRUE, "prefetch()", builder)

\* the options of one kind, as the type PrefetchOptions has them
SingleOptionVals == {o \in PrefetchOptionVals : o.force = JsUndef \/ o.ifOlderThan = JsUndef}

\* faulty variant: `{ ...options, ...stableDefaultOptions }`
usePrefetchDefaultsLast(defaultOptions, options) ==
  Options(Nullish(defaultOptions.force, options.force),
          Nullish(defaultOptions.ifOlderThan, options.ifOlderThan))
\* usePrefetch: `{ ...stableDefaultOptions, ...options }`
usePrefetch(defaultOptions, options) ==
  Options(Nullish(options.force, defaultOptions.force),
          Nullish(options.ifOlderThan, defaultOptions.ifOlderThan))

(* ----------------------------------------------------- invalidation engine *)
\* faulty variant: the id of the invalidated tag is not compared
TagMatchesTypeOnly(invalidated, tag) == invalidated.type = tag.type

TagMatches(invalidated, tag) ==
  /\ invalidated.type = tag.type
  /\ (invalidated.id = NoId \/ invalidated.id = tag.id)

toInvalidate(tags, q, prov) ==
  {k \in Keys : q[k].exists /\ \E i \in tags : \E p \in prov[k] : TagMatches(i, p)}

RECURSIVE refetchAll(_, _, _, _)
refetchAll(st, keys, i, origin) ==
  IF i > Len(KeyOrder) THEN st
  ELSE IF KeyOrder[i] \in keys
       THEN refetchAll(dispatchQueryThunk(st, EndpointOfKey(KeyOrder[i]),
                                          ArgOfKey(KeyOrder[i]), JsBool(TRUE),
                                          FALSE, origin, "request"),
                       keys, i + 1, origin)
       ELSE refetchAll(st, keys, i + 1, origin)

invalidateEntities(st, tags, origin) ==
  refetchAll(st, toInvalidate(tags, st.q, provided), 1, origin)

(* ------------------------------------------------- optimistic updates *)
\* cached values of the api whose results are patched: a number (not
\* draftable) or an array of numbers (draftable)
Prim(n) == [draftable |-> FALSE, n |-> n, items |-> <<>>]
Arr(items) == [draftable |-> TRUE, n |-> 0, items |-> items]
isDraftable(value) == value.draftable
PatchedData == {Prim(1), Arr(<<1>>)}
NewItem == 2

\* update recipes: draft.push(NewItem), draft.pop(), draft[0] = NewItem,
\* () => [NewItem], (n) => -n, and a recipe that leaves the draft alone
Recipes == {"push", "pop", "setFirst", "replaceAll", "negate", "noop"}
\* the recipe returns a value instead of changing its draft
Returns(recipe) == recipe \in {"replaceAll", "negate"}
\* the recipe can be run on the value (draft methods need an array, -n a
\* number) and keeps the array within MaxItems
Runs(recipe, value) ==
  CASE recipe = "push" -> isDraftable(value) /\ Len(value.items) < MaxItems
    [] recipe \in {"pop", "setFirst"} -> isDraftable(value) /\ Len(value.items) > 0
    [] recipe = "negate" -> ~isDraftable(value)
    [] recipe = "noop" -> isDraftable(value)
    [] OTHER -> TRUE
updateRecipe(recipe, value) ==
  CASE recipe = "push" -> Arr(Append(value.items, NewItem))
    [] recipe = "pop" -> Arr(SubSeq(value.items, 1, Len(value.items) - 1))
    [] recipe = "setFirst" -> Arr([value.items EXCEPT ![1] = NewItem])
    [] recipe = "replaceAll" -> Arr(<<NewItem>>)
    [] recipe = "negate" -> Prim(0 - value.n)
    [] OTHER -> value

\* patches: paths are [] (the root), [i] or ['length']
RootPath == [kind |-> "root", i |-> 0]
IndexPath(i) == [kind |-> "index", i |-> i]
LengthPath == [kind |-> "length", i |-> 0]
Patch(op, path, value) == [op |-> op, path |-> path, value |-> value]
PatchCollection(patches, inversePatches) ==
  [patches |-> patches, inversePatches |-> inversePatches]

\* the positions from i on at which base and copy differ, in order
RECURSIVE Differing(_, _, _)
Differing(base, copy, i) ==
  IF i > Len(base) THEN <<>>
  ELSE (IF base[i] # copy[i] THEN <<i>> ELSE <<>>) \o Differing(base, copy, i + 1)

\* the array patches of the diff collaborator for base no longer than copy:
\* replace what differs, add what is new, and undo by setting the length
generateArrayPatches(base, copy) ==
  LET changed == Differing(base, copy, 1)
      added == [j \in 1..(Len(copy) - Len(base)) |-> Len(base) + j]
  IN PatchCollection(
       [j \in 1..Len(changed) |->
          Patch("replace", IndexPath(changed[j] - 1), Prim(copy[changed[j]]))]
       \o [j \in 1..Len(added) |->
             Patch("add", IndexPath(added[j] - 1), Prim(copy[added[j]]))],
       [j \in 1..Len(changed) |->
          Patch("replace", IndexPath(changed[j] - 1), Prim(base[changed[j]]))]
       \o (IF Len(base) < Len(copy)
            THEN <<Patch("replace", LengthPath, Prim(Len(base)))>> ELSE <<>>))

\* faulty variant: the inverse patches are the forward patches
produceWithPatchesNoInverse(base, recipe) ==
  LET next == updateRecipe(recipe, base)
  IN IF Returns(recipe)
     THEN PatchCollection(<<Patch("replace", RootPath, next)>>,
                          <<Patch("replace", RootPath, next)>>)
     ELSE IF Len(next.items) < Len(base.items)
          THEN PatchCollection(generateArrayPatches(next.items, base.items).inversePatches,
                               generateArrayPatches(next.items, base.items).inversePatches)
          ELSE PatchCollection(generateArrayPatches(base.items, next.items).patches,
                               generateArrayPatches(base.items, next.items).patches)

\* produceWithPatches(base, recipe) without its first component: a returned
\* value replaces the root, a changed draft is diffed (the shorter array is
\* the base of the diff, and the two patch lists swap when the draft shrank)
produceWithPatches(base, recipe) ==
  LET next == updateRecipe(recipe, base)
  IN IF Returns(recipe)
     THEN PatchCollection(<<Patch("replace", RootPath, next)>>,
                          <<Patch("replace", RootPath, base)>>)
     ELSE IF Len(next.items) < Len(base.items)
          THEN PatchCollection(generateArrayPatches(next.items, base.items).inversePatches,
                               generateArrayPatches(next.items, base.items).patches)
          ELSE generateArrayPatches(base.items, next.items)

\* one patch fits the value it is applied to
Fits(value, patch) ==
  \/ patch.path.kind = "root"
  \/ /\ isDraftable(value)
     /\ CASE patch.path.kind = "length" -> patch.value.n <= Len(value.items)
          [] patch.op = "add" -> patch.path.i <= Len(value.items)
          [] OTHER -> patch.path.i < Len(value.items)
applyPatch(value, patch) ==
  CASE patch.path.kind = "root" -> patch.value
    [] patch.path.kind = "length" -> Arr(SubSeq(value.items, 1, patch.value.n))
    [] patch.op = "add" ->
         Arr(SubSeq(value.items, 1, patch.path.i) \o <<patch.value.n>>
             \o SubSeq(value.items, patch.path.i + 1, Len(value.items)))
    [] patch.op = "remove" ->
         Arr(SubSeq(value.items, 1, patch.path.i)
             \o SubSeq(value.items, patch.path.i + 2, Len(value.items)))
    [] OTHER -> Arr([value.items EXCEPT ![patch.path.i + 1] = patch.value.n])
RECURSIVE applyPatches(_, _)
applyPatches(value, patches) ==
  IF Len(patches) = 0 THEN value
  ELSE applyPatches(applyPatch(value, Head(patches)), Tail(patches))
RECURSIVE AllFit(_, _)
AllFit(value, patches) ==
  IF Len(patches) = 0 THEN TRUE
  ELSE IF Fits(value, Head(patches))
       THEN AllFit(applyPatch(value, Head(patches)), Tail(patches))
       ELSE FALSE

\* faulty variant: a patched entry is marked fulfilled
queryResultPatchedFulfilling(entry, patches) ==
  IF ~entry.exists \/ Len(patches) = 0 THEN entry
  ELSE [entry EXCEPT !.data = Some(applyPatches(entry.data[1], patches)),
                     !.status = "fulfilled"]
\* reducer of queryResultPatched: only an entry that exists is patched (an
\* empty list of patches changes nothing, with or without data)
queryResultPatched(entry, patches) ==
  IF ~entry.exists \/ Len(patches) = 0 THEN entry
  ELSE [entry EXCEPT !.data = Some(applyPatches(entry.data[1], patches))]

\* dispatch(api.util.patchQueryResult(ep, arg, patches))
patchQueryResult(q, ep, arg, patches) ==
  [q EXCEPT ![serializeQueryArgs(ep, arg)] = queryResultPatched(@, patches)]

\* no updateQueryResult yet; Returned is what one call returned (ret), the
\* value it found (base), how often it called the recipe and how many
\* actions it dispatched
NoUpdate ==
  [called |-> FALSE, ret |-> PatchCollection(<<>>, <<>>), base |-> Undefined,
   recipeCalls |-> 0, dispatched |-> 0]
Returned(ret, base, recipeCalls, dispatched) ==
  [called |-> TRUE, ret |-> ret, base |-> base, recipeCalls |-> recipeCalls,
   dispatched |-> dispatched]

\* faulty variant: the status of the entry is not looked at
updateQueryResultNoStatusCheck(q, ep, arg, recipe) ==
  LET currentState == q[serializeQueryArgs(ep, arg)]
      ret == IF ~IsDefined(currentState.data) THEN PatchCollection(<<>>, <<>>)
             ELSE IF isDraftable(currentState.data[1])
             THEN produceWithPatches(currentState.data[1], recipe)
             ELSE PatchCollection(
                    <<Patch("replace", RootPath, updateRecipe(recipe, currentState.data[1]))>>,
                    <<Patch("replace", RootPath, currentState.data[1])>>)
  IN [q |-> patchQueryResult(q, ep, arg, ret.patches),
      out |-> Returned(ret, currentState.data,
                       IF IsDefined(currentState.data) THEN 1 ELSE 0, 1)]

\* dispatch(api.util.updateQueryResult(ep, arg, recipe)): the new cache table
\* and what the thunk returned, called and dispatched
updateQueryResult(q, ep, arg, recipe) ==
  LET currentState == q[serializeQueryArgs(ep, arg)]
      ret == IF ~IsDefined(currentState.data) THEN PatchCollection(<<>>, <<>>)
             ELSE IF isDraftable(currentState.data[1])
             THEN produceWithPatches(currentState.data[1], recipe)
             ELSE PatchCollection(
                    <<Patch("replace", RootPath, updateRecipe(recipe, currentState.data[1]))>>,
                    <<Patch("replace", RootPath, currentState.data[1])>>)
  IN IF currentState.status = "uninitialized"
     THEN [q |-> q, out |-> Returned(PatchCollection(<<>>, <<>>), Undefined, 0, 0)]
     ELSE [q |-> patchQueryResult(q, ep, arg, ret.patches),
           out |-> Returned(ret, currentState.data,
                            IF IsDefined(currentState.data) THEN 1 ELSE 0, 1)]

(* --------------------------------------------------------------------- Init *)
(* ------------------------------------------------- subscription options *)
\* the options of a subscription: { pollingInterval, refetchOnReconnect, refetchOnFocus };
\* an absent interval is 0, an absent flag counts as false
SubscriptionOptions(pollingInterval, refetchOnReconnect, refetchOnFocus) ==
  [pollingInterval |-> pollingInterval, refetchOnReconnect |-> refetchOnReconnect,
   refetchOnFocus |-> refetchOnFocus]
NoSubscriptionOptions == SubscriptionOptions(0, FALSE, FALSE)
PollingIntervals == {0, 1000, 2000}
SubscriptionOptionVals ==
  {SubscriptionOptions(p, r, f) : p \in PollingIntervals, r \in BOOLEAN, f \in BOOLEAN}
Subscriber(id, options) == [id |-> id, options |-> options]

\* faulty variant: an interval of 0 counts as an interval
findLowestPollingIntervalWithZero(subscribers) ==
  LET RECURSIVE Lowest(_, _)
      Lowest(ids, lowest) ==
        IF Len(ids) = 0 THEN lowest
        ELSE LET sub == CHOOSE x \in subscribers : x.id = Head(ids)
                 p == sub.options.pollingInterval
             IN Lowest(Tail(ids), IF lowest = 0 \/ p < lowest THEN p ELSE lowest)
  IN Lowest(SetToSeq({x.id : x \in subscribers}), 0)

\* the lowest of the subscribers' intervals that are not 0; 0 when there is none
findLowestPollingInterval(subscribers) ==
  LET RECURSIVE Lowest(_, _)
      Lowest(ids, lowest) ==
        IF Len(ids) = 0 THEN lowest
        ELSE LET sub == CHOOSE x \in subscribers : x.id = Head(ids)
                 p == sub.options.pollingInterval
             IN Lowest(Tail(ids),
                       IF p # 0 /\ (lowest = 0 \/ p < lowest) THEN p ELSE lowest)
  IN Lowest(SetToSeq({x.id : x \in subscribers}), 0)

\* the options the tracker acts on for a key with these subscribers
mergeSubscriptionOptions(subscribers) ==
  SubscriptionOptions(findLowestPollingInterval(subscribers),
                      \E x \in subscribers : x.options.refetchOnReconnect,
                      \E x \in subscribers : x.options.refetchOnFocus)

(* -------------------------------------------------------------- hooks *)
\* the values the api used through the hook caches: the numbers 0 and 1
HookData == {Prim(0), Prim(1)}
\* ToBoolean of a cached value: a number other than 0, or any array
ToBoolean(value) == isDraftable(value) \/ value.n # 0

\* what select(arg) returns: the entry with the flags of its status
QuerySubState(entry) ==
  [status |-> entry.status, data |-> entry.data,
   isUninitialized |-> entry.status = "uninitialized",
   isLoading |-> entry.status = "pending",
   isSuccess |-> entry.status = "fulfilled",
   isError |-> entry.status = "rejected"]

defaultQueryStateSelector(currentState, lastResult) ==
  LET tracked == IF currentState.isSuccess THEN currentState.data
                 ELSE IF IsDefined(lastResult) THEN lastResult[1].data ELSE Undefined
      data == IF IsDefined(tracked) THEN tracked ELSE currentState.data
      truthy == IsDefined(data) /\ ToBoolean(data[1])
      isFetching == currentState.isLoading
  IN [status |-> currentState.status, data |-> data,
      isUninitialized |-> currentState.isUninitialized,
      isFetching |-> isFetching,
      isLoading |-> ~truthy /\ isFetching,
      isSuccess |-> currentState.isSuccess \/ (isFetching /\ truthy),
      isError |-> currentState.isError]

noPendingQueryStateSelector(currentState, lastResult) ==
  LET selected == defaultQueryStateSelector(currentState, lastResult)
  IN IF selected.isUninitialized
     THEN [selected EXCEPT !.isUninitialized = FALSE, !.isFetching = TRUE,
                           !.isLoading = TRUE, !.status = "pending"]
     ELSE selected

\* faulty variant: the entry of the argument is selected even when skip is set
useQueryStateIgnoringSkip(q, k, skip, selectFromResult, lastValue) ==
  LET subState == QuerySubState(q[k])
  IN IF selectFromResult = "noPending"
     THEN noPendingQueryStateSelector(subState, lastValue)
     ELSE defaultQueryStateSelector(subState, lastValue)

\* useQueryState(arg, { skip, selectFromResult }) rendered over the cache table q
useQueryState(q, k, skip, selectFromResult, lastValue) ==
  LET subState == QuerySubState(IF skip THEN NoEntry ELSE q[k])
  IN IF selectFromResult = "noPending"
     THEN noPendingQueryStateSelector(subState, lastValue)
     ELSE defaultQueryStateSelector(subState, lastValue)

\* the state part of useQuery(arg, { skip })
useQuery(q, k, skip, lastValue) ==
  useQueryState(q, k, skip, IF skip THEN "default" ELSE "noPending", lastValue)

\* no component is mounted
NoHook ==
  [mounted |-> FALSE, skip |-> FALSE, refetchOnMountOrArgChange |-> JsUndef,
   promise |-> NoId, lastValue |-> Undefined, currentState |-> Undefined,
   effects |-> FALSE, skippedSinceMount |-> FALSE, arg |-> NoArg, promiseArg |-> NoArg,
   unsubscribes |-> 0, triggers |-> 0, defaultOptions |-> NoOptions, options |-> NoOptions]

ConfigVals == {JsUndef, JsBool(TRUE)}
\* forceRefetch / refetchOnMountOrArgChange: absent, a boolean, or seconds
\* (0 and 0.5, in thousandths)
ForceVals == {JsUndef, JsBool(FALSE), JsBool(TRUE), JsNum(0), JsNum(500)}


InitCache(rec, apis, configs, lim) ==
  /\ queries = [k \in Keys |-> NoEntry]
  /\ provided = [k \in Keys |-> {}]
  /\ subscriptions = [k \in Keys |-> {}]
  /\ evictTimer = [k \in Keys |-> FALSE]
  /\ running = {}
  /\ recording = rec
  /\ log = <<>>
  /\ now = StartNow
  /\ nextId = 1
  /\ limit = lim
  /\ api \in apis
  /\ config \in configs
  /\ baseQueryCalls = 0
  /\ evictedInFlight = {}
  /\ discarded = {}
  /\ cacheHit = FALSE
  /\ trace = NoTrace
  /\ contexts = {}
  /\ entityTypes = EntityTypesOf(api)
  /\ reported = {}
  /\ patched = NoUpdate
  /\ subscriptionOptions = [k \in Keys |-> {}]
  /\ effective = [k \in Keys |-> NoSubscriptionOptions]
  /\ component = NoHook

\* a store whose serializer is not looked at
InitStore(rec, apis, configs, lim) ==
  /\ InitCache(rec, apis, configs, lim)
  /\ serialized = NoSerialization
  /\ calculated = NoCalculation
  /\ listeners = NoListeners
\* a caller about to derive the cache key of an endpoint and an argument
InitSerializer ==
  /\ InitCache(FALSE, {"session"}, {JsUndef}, MaxRequests)
  /\ serialized \in {[NoSerialization EXCEPT !.endpointName = e, !.queryArgs = a] :
                        e \in EndpointNames, a \in QueryArgs}
  /\ calculated = NoCalculation
  /\ listeners = NoListeners

\* the results, errors and arguments calculateProvidedBy is handed
CalculateResults == {Undefined} \cup {Some(d) : d \in DataVals \cup {{1, 2}}}
CalculateErrors == {Undefined} \cup {Some(e) : e \in ErrorVals}
CalculateArgs == {NoArg} \cup PostIds
\* a caller about to evaluate a descriptor of an endpoint of some api
InitCalculate ==
  /\ InitCache(FALSE, Apis, {JsUndef}, MaxRequests)
  /\ serialized = NoSerialization
  /\ listeners = NoListeners
  /\ calculated \in {[NoCalculation EXCEPT !.endpointName = e, !.which = w, !.result = r,
                                           !.error = x, !.queryArg = a] :
                        e \in QueryEndpointsOf(api) \cup MutationEndpointsOf(api),
                        w \in {"provides", "invalidates"}, r \in CalculateResults,
                        x \in CalculateErrors, a \in CalculateArgs}

\* createApi with the default configuration, session api
Init == InitStore(FALSE, {"session"}, {JsUndef}, MaxRequests)
\* createApi with the default configuration, posts api
InitPosts == InitStore(FALSE, {"posts"}, {JsUndef}, MaxPostsRequests)
\* the store of the invalidation tests: session api, `actions` reducer installed
InitActions == InitStore(TRUE, {"session"}, {JsUndef}, MaxRequests)
\* createApi with or without refetchOnMountOrArgChange: true
InitDefaults == InitStore(FALSE, {"session"}, ConfigVals, MaxRequests)
\* createApi with the default configuration, mixed api
InitMixed == InitStore(FALSE, {"mixed"}, {JsUndef}, MaxRequests)
\* createApi with the default configuration, lifecycle api
InitLifecycle == InitStore(FALSE, {"lifecycle"}, {JsUndef}, MaxRequests)
\* createApi with the default configuration, entities api
InitEntities == InitStore(FALSE, {"entities"}, {JsUndef}, MaxEntityRequests)
\* createApi with the default configuration, transform api
InitTransform == InitStore(FALSE, {"transform"}, {JsUndef}, MaxRequests)
\* createApi with the default configuration, session api, whose cached result
\* is updated optimistically
InitPatch == InitStore(FALSE, {"session"}, {JsUndef}, MaxRequests)
\* createApi with the default configuration, session api, used by components
\* with subscription options
InitSubscriptions == InitStore(FALSE, {"session"}, {JsUndef}, MaxRequests)
\* createApi with the default configuration, session api, used through useQuery
InitHooks == InitStore(FALSE, {"session"}, {JsUndef}, MaxRequests)
\* the api of the hook tests, default configuration, used by one component
InitUsers == InitStore(FALSE, {"users"}, {JsUndef}, MaxTriggers)
\* createApi with the default configuration, session api, used with usePrefetch
InitPrefetch == InitStore(FALSE, {"session"}, {JsUndef}, MaxRequests)

(* ------------------------------------------------------------------ actions *)
\* the store and the tracker follow the subscriptions this step adds (with the
\* given options) and removes; the tracker recomputes the keys whose
\* subscriptions changed
Subscribed(options) ==
  /\ subscriptionOptions' =
       [k \in Keys |-> {x \in subscriptionOptions[k] : x.id \in subscriptions'[k]}
                       \cup {Subscriber(id, options) :
                               id \in subscriptions'[k] \ subscriptions[k]}]
  /\ effective' = [k \in Keys |-> IF subscriptions'[k] = subscriptions[k]
                                   THEN effective[k]
                                   ELSE mergeSubscriptionOptions(subscriptionOptions'[k])]

\* dispatch(api.endpoints[ep].initiate(arg, {subscribe, forceRefetch, subscriptionOptions}))
Initiate(ep, arg, forceRefetch, subscribe, options) ==
  /\ nextId <= limit
  /\ \E b \in BuilderOutcomes(ep) :
     \E st \in {dispatchQueryThunk(Bundle, ep, arg, forceRefetch, subscribe, "caller", b)} :
        /\ queries' = st.q
        /\ subscriptions' = st.subs
        /\ running' = st.run
        /\ log' = st.lg
        /\ nextId' = st.nid
        /\ baseQueryCalls' = st.calls
        /\ cacheHit' = st.hit
        /\ contexts' = st.ctx
  /\ Subscribed(options)
  /\ UNCHANGED <<calculated, listeners, serialized, patched, entityTypes, reported, provided, evictTimer, recording, now, limit, api, config, evictedInFlight,
                 discarded, trace>>

\* dispatch(api.endpoints[ep].initiate(arg, {subscribe, forceRefetch}))
QueryDispatch(ep, arg, forceRefetch, subscribe) ==
  Initiate(ep, arg, forceRefetch, subscribe, NoSubscriptionOptions) /\ UNCHANGED component

\* a component using useQuerySubscription(arg, options) mounts: its effect
\* dispatches initiate(arg, {subscriptionOptions, forceRefetch}) and keeps the promise
UseQuerySubscription(ep, arg, options, refetchOnMountOrArgChange) ==
  Initiate(ep, arg, refetchOnMountOrArgChange, TRUE, options) /\ UNCHANGED component

\* a mounted component renders with other options: its effect calls
\* lastPromise.updateSubscriptionOptions(options)
UpdateSubscriptionOptions(k, id, options) ==
  /\ \E x \in subscriptionOptions[k] : x.id = id /\ x.options # options
  /\ subscriptionOptions' =
       [subscriptionOptions EXCEPT ![k] = {x \in @ : x.id # id} \cup {Subscriber(id, options)}]
  /\ effective' = [effective EXCEPT ![k] = mergeSubscriptionOptions(subscriptionOptions'[k])]
  /\ UNCHANGED <<calculated, listeners, component, serialized, patched, entityTypes, reported, queries, provided, subscriptions, evictTimer,
                 running, recording, log, now, nextId, limit, api, config, baseQueryCalls,
                 evictedInFlight, discarded, cacheHit, trace, contexts>>

\* the query endpoint the component uses, and its cache key
HookEndpoint == CHOOSE ep \in QueryEndpointsOf(api) : TRUE
\* the cache key of the endpoint for an argument of the component
KeyOfArg(arg) == serializeQueryArgs(HookEndpoint, arg)
HookKey == KeyOfArg(component.arg)
\* the argument the component is first rendered with
FirstArg == CHOOSE a \in QueryArgsOf(HookEndpoint) : \A b \in QueryArgsOf(HookEndpoint) : a <= b
\* the arg state of a lazy query hook nothing has triggered: equal to no argument
UNINITIALIZED_VALUE == 3

\* faulty variant: the last promise is left subscribed
PromiseUnsubscribeKept(subs) == subs
\* promiseRef.current?.unsubscribe(): what the store and the tracker see
PromiseUnsubscribe(subs) ==
  IF component.promise = NoId THEN subs
  ELSE [subs EXCEPT ![KeyOfArg(component.promiseArg)] = @ \ {component.promise}]
PromiseUnsubscribeTimer ==
  IF component.promise # NoId
       /\ subscriptions[KeyOfArg(component.promiseArg)] = {component.promise}
  THEN [evictTimer EXCEPT ![KeyOfArg(component.promiseArg)] = TRUE]
  ELSE evictTimer
\* the unsubscribeQueryResult actions the hook instance has dispatched
UnsubscribesAfter == component.unsubscribes + (IF component.promise = NoId THEN 0 ELSE 1)

\* lastPromise?.unsubscribe(); dispatch(initiate(arg, { forceRefetch }))
Reinitiate(arg, forceRefetch) ==
  /\ nextId <= limit
  /\ \E b \in BuilderOutcomes(HookEndpoint) :
     \E st \in {dispatchQueryThunk([Bundle EXCEPT !.subs = PromiseUnsubscribe(subscriptions)],
                                   HookEndpoint, arg, forceRefetch, TRUE, "caller", b)} :
        /\ queries' = st.q
        /\ subscriptions' = st.subs
        /\ running' = st.run
        /\ log' = st.lg
        /\ nextId' = st.nid
        /\ baseQueryCalls' = st.calls
        /\ cacheHit' = st.hit
        /\ contexts' = st.ctx
  /\ evictTimer' = PromiseUnsubscribeTimer
  /\ Subscribed(NoSubscriptionOptions)
  /\ UNCHANGED <<calculated, listeners, serialized, patched, entityTypes, reported, provided,
                 recording, now, limit, api, config, evictedInFlight, discarded, trace>>

\* a component calling useQuery(arg, { skip, refetchOnMountOrArgChange }) renders
\* for the first time
Mount(skip, refetchOnMountOrArgChange) ==
  /\ ~component.mounted
  /\ component' = [NoHook EXCEPT
                !.mounted = TRUE, !.skip = skip,
                !.refetchOnMountOrArgChange = refetchOnMountOrArgChange,
                !.currentState = Some(useQuery(queries, KeyOfArg(FirstArg), skip, Undefined)),
                !.effects = TRUE, !.skippedSinceMount = skip, !.arg = FirstArg]
  /\ UNCHANGED <<calculated, listeners, serialized, subscriptionOptions, effective, patched, entityTypes, reported,
                 queries, provided, subscriptions, evictTimer, running, recording, log, now,
                 nextId, limit, api, config, baseQueryCalls, evictedInFlight, discarded,
                 cacheHit, trace, contexts>>

\* the component renders with another value of skip
SetSkip(skip) ==
  /\ component.mounted /\ ~component.effects
  /\ skip # component.skip
  /\ component' = [component EXCEPT
                !.skip = skip,
                !.currentState = Some(useQuery(queries, HookKey, skip, component.lastValue)),
                !.effects = TRUE,
                !.skippedSinceMount = @ /\ skip]
  /\ UNCHANGED <<calculated, listeners, serialized, subscriptionOptions, effective, patched, entityTypes, reported,
                 queries, provided, subscriptions, evictTimer, running, recording, log, now,
                 nextId, limit, api, config, baseQueryCalls, evictedInFlight, discarded,
                 cacheHit, trace, contexts>>

\* the store has changed what the component selects: the component renders again
Rerender ==
  /\ component.mounted /\ ~component.effects
  /\ Some(useQuery(queries, HookKey, component.skip, component.lastValue)) # component.currentState
  /\ component' = [component EXCEPT
                !.currentState = Some(useQuery(queries, HookKey, component.skip, component.lastValue)),
                !.effects = TRUE]
  /\ UNCHANGED <<calculated, listeners, serialized, subscriptionOptions, effective, patched, entityTypes, reported,
                 queries, provided, subscriptions, evictTimer, running, recording, log, now,
                 nextId, limit, api, config, baseQueryCalls, evictedInFlight, discarded,
                 cacheHit, trace, contexts>>

\* the effects of the last render run: lastValue.current = currentState, and,
\* unless skip is set or a promise for the argument is held, the last promise
\* is unsubscribed and initiate(arg, {...}) dispatched
RunEffects ==
  /\ component.mounted /\ component.effects
  /\ IF component.skip \/ (component.promise # NoId /\ component.promiseArg = component.arg)
     THEN /\ component' = [component EXCEPT !.effects = FALSE, !.lastValue = component.currentState]
          /\ UNCHANGED <<calculated, listeners, serialized, subscriptionOptions, effective, patched, entityTypes,
                         reported, queries, provided, subscriptions, evictTimer, running,
                         recording, log, now, nextId, limit, api, config, baseQueryCalls,
                         evictedInFlight, discarded, cacheHit, trace, contexts>>
     ELSE /\ Reinitiate(component.arg, component.refetchOnMountOrArgChange)
          /\ component' = [component EXCEPT !.effects = FALSE, !.lastValue = component.currentState,
                                  !.promise = nextId, !.promiseArg = component.arg,
                                  !.unsubscribes = UnsubscribesAfter]

\* the component renders with another argument
SetArg(arg) ==
  /\ component.mounted /\ ~component.effects
  /\ arg # component.arg
  /\ component' = [component EXCEPT
                !.arg = arg,
                !.currentState = Some(useQuery(queries, KeyOfArg(arg), component.skip,
                                               component.lastValue)),
                !.effects = TRUE]
  /\ UNCHANGED <<calculated, listeners, serialized, subscriptionOptions, effective, patched, entityTypes, reported,
                 queries, provided, subscriptions, evictTimer, running, recording, log, now,
                 nextId, limit, api, config, baseQueryCalls, evictedInFlight, discarded,
                 cacheHit, trace, contexts>>

\* what unmounting a component with a query hook does to the store: the
\* cleanup calls promiseRef.current?.unsubscribe()
Cleanup ==
  /\ subscriptions' = PromiseUnsubscribe(subscriptions)
  /\ evictTimer' = PromiseUnsubscribeTimer
  /\ Subscribed(NoSubscriptionOptions)
  /\ UNCHANGED <<calculated, listeners, serialized, patched, entityTypes, reported, queries,
                 provided, running, recording, log, now, nextId, limit, api, config,
                 baseQueryCalls, evictedInFlight, discarded, cacheHit, trace, contexts>>

\* the component using useQuery unmounts: the promise is unsubscribed and dropped
Unmount ==
  /\ component.mounted /\ ~component.effects
  /\ Cleanup
  /\ component' = [component EXCEPT !.mounted = FALSE, !.promise = NoId,
                                  !.unsubscribes = UnsubscribesAfter]

\* a component calling useLazyQuery() renders for the first time
MountLazy ==
  /\ ~component.mounted
  /\ component' = [NoHook EXCEPT !.mounted = TRUE, !.arg = UNINITIALIZED_VALUE]
  /\ UNCHANGED <<calculated, listeners, serialized, subscriptionOptions, effective, patched, entityTypes, reported,
                 queries, provided, subscriptions, evictTimer, running, recording, log, now,
                 nextId, limit, api, config, baseQueryCalls, evictedInFlight, discarded,
                 cacheHit, trace, contexts>>

\* trigger(arg) of the lazy query hook: the last promise is unsubscribed and
\* initiate(arg, { forceRefetch: true }) dispatched
Trigger(arg) ==
  /\ component.mounted
  /\ Reinitiate(arg, JsBool(TRUE))
  /\ component' = [component EXCEPT !.arg = arg, !.promise = nextId, !.promiseArg = arg,
                                  !.unsubscribes = UnsubscribesAfter, !.triggers = @ + 1]

\* the component using useLazyQuery unmounts: the promise is unsubscribed
UnmountLazy ==
  /\ component.mounted
  /\ Cleanup
  /\ component' = [component EXCEPT !.mounted = FALSE, !.unsubscribes = UnsubscribesAfter]

\* the cache key of the endpoint and the argument is derived
SerializeQueryArgs ==
  /\ ~serialized.called
  /\ serialized' = [serialized EXCEPT
                       !.called = TRUE,
                       !.key = defaultSerializeQueryArgs(serialized.endpointName,
                                                         serialized.queryArgs)]
  /\ UNCHANGED <<calculated, listeners, component, subscriptionOptions, effective, patched, entityTypes, reported, queries,
                 provided, subscriptions, evictTimer, running, recording, log, now, nextId,
                 limit, api, config, baseQueryCalls, evictedInFlight, discarded, cacheHit,
                 trace, contexts>>

\* calculateProvidedBy(description, result, error, queryArg, assertEntityType)
CalculateProvidedBy ==
  /\ ~calculated.called
  /\ \E tags \in {calculateProvidedBy(calculated.endpointName, calculated.which,
                                      calculated.result, calculated.error,
                                      calculated.queryArg)} :
        /\ calculated' = [calculated EXCEPT
                            !.called = TRUE,
                            !.invoked = descriptionCalls(calculated.endpointName,
                                          calculated.which, calculated.result,
                                          calculated.error, calculated.queryArg),
                            !.tags = tags]
        /\ reported' = reported \cup Reports(entityTypes, tags)
  /\ UNCHANGED <<listeners, serialized, component, subscriptionOptions, effective, patched,
                 entityTypes, queries, provided, subscriptions, evictTimer, running,
                 recording, log, now, nextId, limit, api, config, baseQueryCalls,
                 evictedInFlight, discarded, cacheHit, trace, contexts>>

\* setupListeners(dispatch) with the default handler, in a browser
SetupListeners ==
  /\ listeners.calls < MaxSetups
  /\ LET id == listeners.calls + 1
     IN listeners' =
          [listeners EXCEPT
             !.calls = id,
             !.registered = IF listeners.initialized THEN @
                            ELSE [e \in WindowEvents |-> @[e] \cup {id}],
             !.initialized = TRUE,
             !.returned = @ \cup {id}]
  /\ UNCHANGED <<calculated, serialized, component, subscriptionOptions, effective, patched,
                 entityTypes, reported, queries, provided, subscriptions, evictTimer,
                 running, recording, log, now, nextId, limit, api, config, baseQueryCalls,
                 evictedInFlight, discarded, cacheHit, trace, contexts>>

\* the unsubscribe function a call of setupListeners returned is called
UnsubscribeListeners(id) ==
  /\ id \in listeners.returned
  /\ listeners' =
       [listeners EXCEPT
          !.registered = [e \in WindowEvents |-> @[e] \ {id}],
          !.initialized = FALSE,
          !.unsubscribed = @ \cup {id}]
  /\ UNCHANGED <<calculated, serialized, component, subscriptionOptions, effective, patched,
                 entityTypes, reported, queries, provided, subscriptions, evictTimer,
                 running, recording, log, now, nextId, limit, api, config, baseQueryCalls,
                 evictedInFlight, discarded, cacheHit, trace, contexts>>

\* the window fires an event: every handler registered for it dispatches one action
WindowEvent(e) ==
  /\ listeners' = [listeners EXCEPT !.event = e,
                                    !.dispatched = Cardinality(listeners.registered[e])]
  /\ UNCHANGED <<calculated, serialized, component, subscriptionOptions, effective, patched,
                 entityTypes, reported, queries, provided, subscriptions, evictTimer,
                 running, recording, log, now, nextId, limit, api, config, baseQueryCalls,
                 evictedInFlight, discarded, cacheHit, trace, contexts>>

\* dispatch(api.util.prefetchThunk(ep, arg, options))
DispatchPrefetch(ep, arg, options) ==
  /\ nextId <= limit
  /\ \E b \in BuilderOutcomes(ep) :
     \E st \in {prefetchThunk(Bundle, ep, arg, options, b)} :
        /\ queries' = st.q
        /\ subscriptions' = st.subs
        /\ running' = st.run
        /\ log' = st.lg
        /\ nextId' = st.nid
        /\ baseQueryCalls' = st.calls
        /\ cacheHit' = st.hit
        /\ contexts' = st.ctx
  /\ Subscribed(NoSubscriptionOptions)
  /\ UNCHANGED <<calculated, listeners, serialized, patched, entityTypes, reported, provided, evictTimer, recording, now, limit, api, config,
                 evictedInFlight, discarded, trace>>

\* a caller other than a component prefetches
Prefetch(ep, arg, options) == DispatchPrefetch(ep, arg, options) /\ UNCHANGED component

\* a component declaring usePrefetch(endpointName, defaultOptions) renders for
\* the first time
MountPrefetch(defaultOptions) ==
  /\ ~component.mounted
  /\ component' = [NoHook EXCEPT !.mounted = TRUE, !.defaultOptions = defaultOptions]
  /\ UNCHANGED <<calculated, listeners, serialized, subscriptionOptions, effective, patched, entityTypes, reported,
                 queries, provided, subscriptions, evictTimer, running, recording, log, now,
                 nextId, limit, api, config, baseQueryCalls, evictedInFlight, discarded,
                 cacheHit, trace, contexts>>

\* the component calls the callback usePrefetch returned: prefetch(arg, options)
UsePrefetch(arg, options) ==
  /\ component.mounted
  /\ DispatchPrefetch(HookEndpoint, arg, usePrefetch(component.defaultOptions, options))
  /\ component' = [component EXCEPT !.options = options]

\* dispatch(api.util.updateQueryResult(ep, arg, recipe)) with a recipe that
\* can run on the cached value
UpdateQueryResult(ep, arg, recipe) ==
  /\ LET data == queries[serializeQueryArgs(ep, arg)].data
     IN IsDefined(data) => Runs(recipe, data[1])
  /\ \E u \in {updateQueryResult(queries, ep, arg, recipe)} :
        /\ queries' = u.q
        /\ patched' = u.out
  /\ UNCHANGED <<calculated, listeners, component, serialized, subscriptionOptions, effective, entityTypes, reported,
                 provided, subscriptions, evictTimer, running, recording,
                 log, now, nextId, limit, api, config, baseQueryCalls, evictedInFlight,
                 discarded, cacheHit, trace, contexts>>

\* the patch lists a caller hands to patchQueryResult: the inverse patches the
\* last updateQueryResult returned (to roll it back), or a new root value
PatchInputs ==
  {patched.ret.inversePatches} \cup {<<Patch("replace", RootPath, d)>> : d \in PatchedData}

\* dispatch(api.util.patchQueryResult(ep, arg, patches)) with patches that fit
\* the cached value and keep an array within MaxItems
PatchQueryResult(ep, arg, patches) ==
  /\ LET entry == queries[serializeQueryArgs(ep, arg)]
     IN IF entry.exists /\ Len(patches) > 0
        THEN IF IsDefined(entry.data)
             THEN IF AllFit(entry.data[1], patches)
                  THEN Len(applyPatches(entry.data[1], patches).items) <= MaxItems
                  ELSE FALSE
             ELSE FALSE
        ELSE TRUE
  /\ queries' = patchQueryResult(queries, ep, arg, patches)
  /\ UNCHANGED <<calculated, listeners, component, serialized, subscriptionOptions, effective, patched, entityTypes, reported, provided, subscriptions, evictTimer, running,
                 recording, log, now, nextId, limit, api, config, baseQueryCalls,
                 evictedInFlight, discarded, cacheHit, trace, contexts>>

\* dispatch(api.endpoints[ep].initiate(arg)) for a mutation
MutationDispatch(ep, arg) ==
  /\ nextId <= limit
  /\ \E b \in BuilderOutcomes(ep) :
     LET run == mutationCondition(ep, arg, running)
         started == executeEndpointStart(contexts, baseQueryCalls,
                                         Execution(nextId, "mutation", ep, "", arg, "caller", b))
     IN /\ running' = IF run THEN running \cup {started.e} ELSE running
        /\ log' = IF run
                  THEN Record(log, LogEntry("pending", "mutation", ep, nextId, FALSE, Undefined))
                  ELSE log
        /\ baseQueryCalls' = IF run THEN started.calls ELSE baseQueryCalls
        /\ contexts' = IF run THEN started.ctx ELSE contexts
  /\ nextId' = nextId + 1
  /\ UNCHANGED <<calculated, listeners, component, serialized, subscriptionOptions, effective, patched, entityTypes, reported, queries, provided, subscriptions, evictTimer, recording, now, limit, api, config,
                 evictedInFlight, discarded, cacheHit, trace>>

TerminalAction(e, out) ==
  [type |-> out.type, withValue |-> out.withValue, payload |-> out.payload,
   endpointName |-> e.endpointName, originalArgs |-> e.originalArgs]

\* result is an outcome execution e can have
Outcome(e, result) ==
  /\ result.stage \in ThrowStages(e.endpointName)
  /\ (e.builder = "throw") = (result.stage = "builder")

\* the transport of a query execution resolves; the terminal action is reduced
QueryResolve(e, result) ==
  /\ e \in running /\ e.thunk = "query"
  /\ Outcome(e, result)
  /\ LET out == executeEndpoint(e.endpointName, result, now)
         k == e.queryCacheKey
     IN /\ queries' = [queries EXCEPT ![k] =
                         IF out.type = "fulfilled"
                         THEN queryFulfilled(@, e.id, out.payload, out.fulfilledTimeStamp)
                         ELSE queryRejected(@, e.id, FALSE, out.withValue, out.payload)]
        /\ provided' = [provided EXCEPT ![k] =
                          providedReducer(@, queries[k], e.id, TerminalAction(e, out))]
        /\ log' = Record(log, LogEntry(out.type, "query", e.endpointName, e.id, FALSE, out.payload))
        /\ \E fin \in {executeEndpointFinish(trace, contexts, running, e, out)} :
              trace' = fin.tr /\ contexts' = fin.ctx
        /\ reported' = IF queries[k].exists /\ queries[k].requestId = e.id
                       THEN reported \cup
                            Reports(entityTypes,
                                    calculateProvidedByThunk(TerminalAction(e, out), "provides"))
                       ELSE reported
  /\ running' = running \ {e}
  /\ discarded' = IF queries[e.queryCacheKey].exists
                     /\ queries[e.queryCacheKey].requestId # e.id
                  THEN discarded \cup {e.id} ELSE discarded
  /\ evictedInFlight' = evictedInFlight \ {e.id}
  /\ UNCHANGED <<calculated, listeners, component, serialized, subscriptionOptions, effective, patched, entityTypes, subscriptions, evictTimer, recording, now, nextId, limit, api, config, baseQueryCalls,
                 cacheHit>>

\* the transport of a mutation execution resolves; the middleware invalidates
MutationResolve(e, result) ==
  /\ e \in running /\ e.thunk = "mutation"
  /\ Outcome(e, result)
  /\ LET out == executeEndpoint(e.endpointName, result, now)
         fin == executeEndpointFinish(trace, contexts, running, e, out)
         st0 == [Bundle EXCEPT !.run = running \ {e},
                               !.lg = Record(log, LogEntry(out.type, "mutation", e.endpointName,
                                                           e.id, FALSE, out.payload)),
                               !.ctx = fin.ctx]
     IN \E st \in {invalidateEntities(st0,
                                       Range(calculateProvidedByThunk(TerminalAction(e, out),
                                                                      "invalidates")),
                                       result.kind)} :
        /\ queries' = st.q
        /\ subscriptions' = st.subs
        /\ running' = st.run
        /\ log' = st.lg
        /\ nextId' = st.nid
        /\ baseQueryCalls' = st.calls
        /\ cacheHit' = st.hit
        /\ trace' = fin.tr
        /\ contexts' = st.ctx
        /\ reported' = reported \cup
                       Reports(entityTypes,
                               calculateProvidedByThunk(TerminalAction(e, out), "invalidates"))
  /\ Subscribed(NoSubscriptionOptions)
  /\ UNCHANGED <<calculated, listeners, component, serialized, patched, entityTypes, provided, evictTimer, recording, now, limit, api, config, evictedInFlight,
                 discarded>>

\* a subscriber of a cache key unsubscribes; the last one starts the eviction timer
Unsubscribe(k, id) ==
  /\ id \in subscriptions[k]
  /\ subscriptions' = [subscriptions EXCEPT ![k] = @ \ {id}]
  /\ evictTimer' = [evictTimer EXCEPT ![k] = @ \/ subscriptions[k] = {id}]
  /\ Subscribed(NoSubscriptionOptions)
  /\ UNCHANGED <<calculated, listeners, component, serialized, patched, entityTypes, reported, queries, provided, running, recording, log, now, nextId, limit, api, config,
                 baseQueryCalls, evictedInFlight, discarded, cacheHit, trace, contexts>>

\* faulty variant: the timer removes the entry whether or not it has subscribers
EvictSubscribed(k) ==
  /\ evictTimer[k]
  /\ evictTimer' = [evictTimer EXCEPT ![k] = FALSE]
  /\ IF TRUE
     THEN /\ queries' = [queries EXCEPT ![k] = NoEntry]
          /\ provided' = [provided EXCEPT ![k] = {}]
          /\ evictedInFlight' = evictedInFlight \cup
                                 {e.id : e \in {x \in running : x.queryCacheKey = k}}
     ELSE UNCHANGED <<queries, provided, evictedInFlight>>
  /\ UNCHANGED <<calculated, listeners, component, serialized, subscriptionOptions, effective, patched, entityTypes, reported, subscriptions, running, recording, log, now, nextId, limit, api, config,
                 baseQueryCalls, discarded, cacheHit, trace, contexts>>

\* the eviction timer of a key fires
Evict(k) ==
  /\ evictTimer[k]
  /\ evictTimer' = [evictTimer EXCEPT ![k] = FALSE]
  /\ IF subscriptions[k] = {}
     THEN /\ queries' = [queries EXCEPT ![k] = NoEntry]
          /\ provided' = [provided EXCEPT ![k] = {}]
          /\ evictedInFlight' = evictedInFlight \cup
                                 {e.id : e \in {x \in running : x.queryCacheKey = k}}
     ELSE UNCHANGED <<queries, provided, evictedInFlight>>
  /\ UNCHANGED <<calculated, listeners, component, serialized, subscriptionOptions, effective, patched, entityTypes, reported, subscriptions, running, recording, log, now, nextId, limit, api, config,
                 baseQueryCalls, discarded, cacheHit, trace, contexts>>

\* time passes
Tick ==
  /\ now < StartNow + MaxTicks * TickMs
  /\ now' = now + TickMs
  /\ UNCHANGED <<calculated, listeners, component, serialized, subscriptionOptions, effective, patched, entityTypes, reported, queries, provided, subscriptions, evictTimer, running, recording, log, nextId,
                 limit, api, config, baseQueryCalls, evictedInFlight, discarded, cacheHit,
                 trace, contexts>>

\* api.enhanceEndpoints({ addEntityTypes: types })
EnhanceEndpoints(types) ==
  /\ entityTypes' = entityTypes \cup types
  /\ UNCHANGED <<calculated, listeners, component, serialized, subscriptionOptions, effective, patched, queries, provided, subscriptions, evictTimer, running, recording, log, now,
                 nextId, limit, api, config, baseQueryCalls, evictedInFlight, discarded,
                 cacheHit, trace, contexts, reported>>

Next ==
  \/ \E ep \in QueryEndpointsOf(api), f \in ForceVals, s \in BOOLEAN :
        QueryDispatch(ep, NoArg, f, s)
  \/ \E ep \in MutationEndpointsOf(api) : \E a \in ArgsOf(ep) : MutationDispatch(ep, a)
  \/ \E e \in running, r \in TransportResults : QueryResolve(e, r)
  \/ \E e \in running, r \in TransportResults : MutationResolve(e, r)
  \/ \E k \in KeysOf(api) : \E id \in subscriptions[k] : Unsubscribe(k, id)
  \/ \E k \in KeysOf(api) : Evict(k)
  \/ Tick

\* the transport results of the api whose cached result is patched
PatchedResults ==
  {[kind |-> "data", stage |-> "transport", data |-> Some(d), error |-> Undefined,
    meta |-> Some(m), raw |-> Some(d)] : d \in PatchedData, m \in MetaVals}
  \cup {[kind |-> "error", stage |-> "transport", data |-> Undefined, error |-> Some(e),
         meta |-> Some(m), raw |-> Undefined] : e \in ErrorVals, m \in MetaVals}

\* the steps of a store whose cached results are updated and patched by hand
NextPatch ==
  \/ \E ep \in QueryEndpointsOf(api), f \in {JsUndef, JsBool(TRUE)} :
        QueryDispatch(ep, NoArg, f, TRUE)
  \/ \E e \in running, r \in PatchedResults : QueryResolve(e, r)
  \/ \E ep \in QueryEndpointsOf(api), r \in Recipes : UpdateQueryResult(ep, NoArg, r)
  \/ \E ep \in QueryEndpointsOf(api), p \in PatchInputs : PatchQueryResult(ep, NoArg, p)
  \/ \E k \in KeysOf(api) : \E id \in subscriptions[k] : Unsubscribe(k, id)
  \/ \E k \in KeysOf(api) : Evict(k)

\* the steps of a store whose queries are used by components with subscription options
NextSubscriptions ==
  \/ \E ep \in QueryEndpointsOf(api), o \in SubscriptionOptionVals :
        UseQuerySubscription(ep, NoArg, o, JsUndef)
  \/ \E k \in KeysOf(api), o \in SubscriptionOptionVals :
        \E id \in subscriptions[k] : UpdateSubscriptionOptions(k, id, o)
  \/ \E e \in running, r \in TransportResults : QueryResolve(e, r)
  \/ \E k \in KeysOf(api) : \E id \in subscriptions[k] : Unsubscribe(k, id)
  \/ \E k \in KeysOf(api) : Evict(k)

\* the transport results of the api used through the hook
HookResults ==
  {[kind |-> "data", stage |-> "transport", data |-> Some(d), error |-> Undefined,
    meta |-> Some(m), raw |-> Some(d)] : d \in HookData, m \in MetaVals}
  \cup {[kind |-> "error", stage |-> "transport", data |-> Undefined, error |-> Some(e),
         meta |-> Some(m), raw |-> Undefined] : e \in ErrorVals, m \in MetaVals}

\* the steps of a store used by a component through useQuery and by other callers
NextHooks ==
  \/ \E skip \in BOOLEAN, f \in {JsUndef, JsBool(TRUE), JsNum(500)} : Mount(skip, f)
  \/ \E skip \in BOOLEAN : SetSkip(skip)
  \/ Rerender
  \/ RunEffects
  \/ \E ep \in QueryEndpointsOf(api), f \in {JsUndef, JsBool(TRUE)} :
        QueryDispatch(ep, NoArg, f, FALSE)
  \/ \E e \in running, r \in HookResults : QueryResolve(e, r)
  \/ Tick

\* the steps of a store whose queries are also prefetched
NextPrefetch ==
  \/ \E ep \in QueryEndpointsOf(api), f \in ForceVals, s \in BOOLEAN :
        QueryDispatch(ep, NoArg, f, s)
  \/ \E ep \in QueryEndpointsOf(api), o \in PrefetchOptionVals : Prefetch(ep, NoArg, o)
  \/ \E ep \in MutationEndpointsOf(api) : \E a \in ArgsOf(ep) : MutationDispatch(ep, a)
  \/ \E e \in running, r \in TransportResults : QueryResolve(e, r)
  \/ \E e \in running, r \in TransportResults : MutationResolve(e, r)
  \/ \E k \in KeysOf(api) : \E id \in subscriptions[k] : Unsubscribe(k, id)
  \/ \E k \in KeysOf(api) : Evict(k)
  \/ Tick

\* the steps of a store whose api is enhanced while it is in use
NextEnhanced ==
  \/ \E ep \in QueryEndpointsOf(api), f \in ForceVals, s \in BOOLEAN :
        QueryDispatch(ep, NoArg, f, s)
  \/ \E ep \in MutationEndpointsOf(api) : \E a \in ArgsOf(ep) : MutationDispatch(ep, a)
  \/ \E e \in running, r \in TransportResults : QueryResolve(e, r)
  \/ \E e \in running, r \in TransportResults : MutationResolve(e, r)
  \/ \E k \in KeysOf(api) : \E id \in subscriptions[k] : Unsubscribe(k, id)
  \/ \E k \in KeysOf(api) : Evict(k)
  \/ Tick
  \/ \E types \in AddedEntityTypes : EnhanceEndpoints(types)

Spec == Init /\ [][Next]_vars
SpecPosts == InitPosts /\ [][Next]_vars
SpecActions == InitActions /\ [][Next]_vars
SpecDefaults == InitDefaults /\ [][Next]_vars
SpecMixed == InitMixed /\ [][Next]_vars
SpecLifecycle == InitLifecycle /\ [][Next]_vars
SpecEntities == InitEntities /\ [][NextEnhanced]_vars
SpecPrefetch == InitPrefetch /\ [][NextPrefetch]_vars
SpecPatch == InitPatch /\ [][NextPatch]_vars
SpecTransform == InitTransform /\ [][Next]_vars
SpecSubscriptions == InitSubscriptions /\ [][NextSubscriptions]_vars
SpecSerializer == InitSerializer /\ [][SerializeQueryArgs]_vars
SpecHooks == InitHooks /\ [][NextHooks]_vars

\* the request ids the store of the invalidation tests can hand out: one per
\* dispatch of the application and, after each of its mutations, one refetch per
\* cache entry of the api
ExecutionIds == 1..(MaxRequests + MaxRequests * Cardinality(KeysOf("session")))
\* the transport of the execution with request id i returns, with any outcome
ResolveExecution(i) ==
  \E e \in running, r \in TransportResults :
     e.id = i /\ (QueryResolve(e, r) \/ MutationResolve(e, r))
\* the store of the invalidation tests with a transport that eventually
\* returns for every request
SpecLive == InitActions /\ [][Next]_vars /\ \A i \in ExecutionIds : WF_vars(ResolveExecution(i))

\* the steps of a store whose queries one component prefetches with usePrefetch
NextUsePrefetch ==
  \/ \E d \in SingleOptionVals : MountPrefetch(d)
  \/ \E o \in SingleOptionVals : UsePrefetch(NoArg, o)
  \/ \E e \in running, r \in HookResults : QueryResolve(e, r)
  \/ Tick
SpecUsePrefetch == InitPrefetch /\ [][NextUsePrefetch]_vars

\* the steps of a store used by one component through useQuery alone
NextHookArgs ==
  \/ \E skip \in BOOLEAN, f \in {JsUndef, JsBool(TRUE)} : Mount(skip, f)
  \/ \E skip \in BOOLEAN : SetSkip(skip)
  \/ \E arg \in UserIds : SetArg(arg)
  \/ Rerender
  \/ RunEffects
  \/ Unmount
  \/ \E e \in running, r \in HookResults : QueryResolve(e, r)
SpecHookArgs == InitUsers /\ [][NextHookArgs]_vars

\* the steps of a store used by one component through useLazyQuery alone
NextLazy ==
  \/ MountLazy
  \/ \E arg \in UserIds : Trigger(arg)
  \/ UnmountLazy
  \/ \E e \in running, r \in HookResults : QueryResolve(e, r)
SpecLazy == InitUsers /\ [][NextLazy]_vars

SpecCalculate == InitCalculate /\ [][CalculateProvidedBy]_vars

NextListeners ==
  \/ SetupListeners
  \/ \E id \in 1..MaxSetups : UnsubscribeListeners(id)
  \/ \E e \in WindowEvents : WindowEvent(e)
SpecListeners == Init /\ [][NextListeners]_vars

(* ------------------------------------------------------------- properties *)
\* the options that ask for a forced prefetch
Forced(o) == Truthy(JsAnd(JsBool(hasTheForce(o)), o.force))
KeyOf(ep) == serializeQueryArgs(ep, NoArg)
QueryExecs(run, k) == {e \in run : e.thunk = "query" /\ e.queryCacheKey = k}
Ids(run) == {e.id : e \in run}
\* e is the execution the entry of its key is waiting for
IsCurrent(e) == queries[e.queryCacheKey].exists /\ queries[e.queryCacheKey].requestId = e.id
\* this step starts an execution for k and the entry waits for it
StartedFor(k) ==
  /\ queries'[k].exists /\ queries'[k].status = "pending"
  /\ \E e \in QueryExecs(running', k) \ running : queries'[k].requestId = e.id
  /\ baseQueryCalls' > baseQueryCalls
NothingStartedFor(k) == QueryExecs(running', k) \subseteq QueryExecs(running, k)
Intersects(invalidated, tags) ==
  \E i \in invalidated, p \in tags : i.type = p.type /\ (i.id = NoId \/ i.id = p.id)
InvalidatedBy(e, r) ==
  Range(calculateProvidedBy(e.endpointName, "invalidates", r.data, r.error, e.originalArgs))
Mutations(run) == {e \in run : e.thunk = "mutation"}
Queries(run) == {e \in run : e.thunk = "query"}
\* this step takes execution e out of flight
Resolved(e) == e \in running /\ e \notin running'

\* C1 (as stated): at most one query execution is in flight per cache key at
\* any instant.
C1_AtMostOneInFlight ==
  \A k \in Keys : Cardinality(QueryExecs(running, k)) <= 1

\* C1 (amended): a query dispatch for a key whose entry is pending starts no
\* execution and makes no transport call, whatever its force flag; every
\* in-flight execution of a key is either the one the pending entry waits for
\* or one whose entry was evicted while it was in flight, so at most one
\* in-flight execution per key is current.
C1_PendingDispatchStartsNothing ==
  /\ [](\A k \in Keys :
          /\ \A e \in QueryExecs(running, k) :
               \/ IsCurrent(e) /\ queries[k].status = "pending"
               \/ e.id \in evictedInFlight
          /\ Cardinality({e \in QueryExecs(running, k) : e.id \notin evictedInFlight}) <= 1)
  /\ [][\A ep \in QueryEndpoints, f \in ForceVals, s \in BOOLEAN :
          (QueryDispatch(ep, NoArg, f, s) /\ queries[KeyOf(ep)].status = "pending")
          => /\ running' = running
             /\ baseQueryCalls' = baseQueryCalls
             /\ queries' = queries]_vars

\* C1 witness: two subscribing dispatches of the same query back to back, the
\* second while the first is pending: one transport invocation, one execution.
C1_Witness ==
  /\ nextId = 3 /\ baseQueryCalls = 1 /\ Mutations(running) = {}
  /\ \E k \in Keys : /\ queries[k].status = "pending" /\ queries[k].requestId = 1
                     /\ Ids(QueryExecs(running, k)) = {1}
                     /\ subscriptions[k] = {1, 2}

\* C2 (as stated): when a mutation fulfills, every cached query whose latest
\* fulfillment provided an invalidated tag gets a new execution started.
C2_AlwaysNewExecution ==
  [][\A e \in Mutations(running), r \in TransportResults :
       (r.kind = "data" /\ Resolved(e) /\ MutationResolve(e, r))
       => \A k \in Keys :
            (/\ queries[k].exists /\ queries[k].fulfilledTimeStamp # 0
             /\ Intersects(InvalidatedBy(e, r), provided[k]))
            => StartedFor(k)]_vars

\* C2 (amended): when a mutation fulfills, every cached query whose latest
\* fulfillment provided an invalidated tag is pending afterwards: a new
\* execution is started for it in that step, without a dispatch by a caller,
\* unless its entry is already pending, in which case the entry and its
\* in-flight execution are left as they are.  No refetch starts when the
\* mutation is dispatched.
C2_RefetchUnlessPending ==
  /\ [][\A e \in Mutations(running), r \in TransportResults :
          (r.kind = "data" /\ Resolved(e) /\ MutationResolve(e, r))
          => \A k \in Keys :
               (/\ queries[k].exists /\ queries[k].fulfilledTimeStamp # 0
                /\ Intersects(InvalidatedBy(e, r), provided[k]))
               => IF queries[k].status = "pending"
                  THEN queries'[k] = queries[k] /\ NothingStartedFor(k)
                  ELSE StartedFor(k)]_vars
  /\ [][\/ queries' = queries /\ \A k \in Keys : NothingStartedFor(k)
        \/ \A ep \in MutationEndpoints : \A a \in ArgsOf(ep) : ~MutationDispatch(ep, a)]_vars

\* C2 witness: a fulfilled mutation has just restarted a query that had
\* fulfilled before.
C2_Witness ==
  \E k \in Keys :
    /\ queries[k].status = "pending" /\ queries[k].fulfilledTimeStamp # 0
    /\ \E e \in QueryExecs(running, k) : e.id = queries[k].requestId /\ e.origin = "data"

\* C3: a query entry that is rejected and never fulfilled, whose endpoint
\* declares a tag a fulfilling mutation invalidates, is re-executed in the step
\* of the mutation's fulfilled action (recorded order: mutation fulfilled, then
\* query pending); when the entry's execution fulfills, the entry is fulfilled,
\* its error is cleared and its data is set.
C3_RejectedQueryRefetched ==
  /\ [][\A e \in Mutations(running), r \in TransportResults :
          (r.kind = "data" /\ Resolved(e) /\ MutationResolve(e, r))
          => \A k \in Keys :
               (/\ queries[k].exists /\ queries[k].status = "rejected"
                /\ queries[k].fulfilledTimeStamp = 0
                /\ Intersects(InvalidatedBy(e, r),
                              Range(calculateProvidedBy(EndpointOfKey(k), "provides",
                                                        Undefined, Undefined, NoArg))))
               => /\ StartedFor(k)
                  /\ recording =>
                       /\ Len(log') = Len(log) + 2
                       /\ log'[Len(log) + 1] =
                            LogEntry("fulfilled", "mutation", e.endpointName, e.id, FALSE, Undefined)
                       /\ log'[Len(log) + 2] =
                            LogEntry("pending", "query", EndpointOfKey(k),
                                     queries'[k].requestId, FALSE, Undefined)]_vars
  /\ [][\A e \in Queries(running), r \in TransportResults :
          (r.kind = "data" /\ Resolved(e) /\ IsCurrent(e) /\ QueryResolve(e, r))
          => /\ queries'[e.queryCacheKey].status = "fulfilled"
             /\ queries'[e.queryCacheKey].error = Undefined
             /\ queries'[e.queryCacheKey].data = r.data]_vars

\* C3 witness: the recorded actions are query pending, query rejected,
\* mutation pending, mutation fulfilled, query pending, query fulfilled, and
\* the entry is fulfilled with its error cleared.
C3_Witness ==
  /\ Len(log) = 6
  /\ [i \in 1..6 |-> <<log[i].thunk, log[i].type, log[i].condition>>] =
       << <<"query", "pending", FALSE>>, <<"query", "rejected", FALSE>>,
          <<"mutation", "pending", FALSE>>, <<"mutation", "fulfilled", FALSE>>,
          <<"query", "pending", FALSE>>, <<"query", "fulfilled", FALSE>> >>
  /\ log[2].requestId = log[1].requestId /\ log[4].requestId = log[3].requestId
  /\ log[6].requestId = log[5].requestId
  /\ \E k \in Keys : /\ queries[k].status = "fulfilled" /\ queries[k].error = Undefined
                     /\ IsDefined(queries[k].data)

\* C4: the response of an execution that is not the one its entry waits for
\* leaves the cache unchanged, the response of the awaited execution is what
\* the entry shows, and no in-flight execution of a key is newer than the
\* request the entry records.
C4_StaleResponseDiscarded ==
  /\ [][\A e \in running, r \in TransportResults :
          (Resolved(e) /\ QueryResolve(e, r))
          => IF IsCurrent(e)
             THEN r.kind = "data" => queries'[e.queryCacheKey].data = r.data
             ELSE queries' = queries /\ provided' = provided]_vars
  /\ [](\A k \in Keys : queries[k].exists =>
          \A e \in QueryExecs(running, k) : e.id <= queries[k].requestId)

\* C4 witness: an execution whose entry was evicted and started anew has
\* resolved while the newer execution is still awaited; the entry shows
\* nothing of the old response.
C4_Witness ==
  \E k \in Keys : \E id \in discarded :
       /\ id \notin Ids(running)
       /\ queries[k].exists /\ queries[k].status = "pending" /\ queries[k].requestId > id
       /\ queries[k].data = Undefined /\ queries[k].error = Undefined
       /\ \E e \in QueryExecs(running, k) : e.id = queries[k].requestId

\* C5: the data of an entry changes only in the step in which an execution of
\* its key resolves with data; steps that make the entry pending or rejected
\* leave data as it was.
C5_DataKeptOnPendingAndRejected ==
  [][\A k \in Keys :
       (queries[k].exists /\ queries'[k].exists /\ queries'[k].data # queries[k].data)
       => \E e \in QueryExecs(running, k), r \in TransportResults :
            r.kind = "data" /\ Resolved(e) /\ QueryResolve(e, r)]_vars

\* C5 witness: an entry that fulfilled with data and whose refetch was
\* rejected still has the data, with status rejected and the error set.
C5_Witness ==
  \E k \in Keys : /\ queries[k].status = "rejected" /\ IsDefined(queries[k].error)
                  /\ IsDefined(queries[k].data) /\ queries[k].fulfilledTimeStamp # 0
                  /\ queries[k].startedTimeStamp > queries[k].fulfilledTimeStamp

\* no refetch is requested: the dispatch says false, or says nothing and the
\* api-wide default does not apply (no subscription, or no default)
NoRefetchRequested(f, s) ==
  f = JsBool(FALSE) \/ (f = JsUndef /\ (~s \/ config \in {JsUndef, JsBool(FALSE)}))

\* C6: a query dispatch without a refetch request for a key whose entry is
\* fulfilled makes no transport call and leaves the entry as it was.
C6_CachedDispatchChangesNothing ==
  [][\A ep \in QueryEndpoints, f \in ForceVals, s \in BOOLEAN :
       (/\ QueryDispatch(ep, NoArg, f, s)
        /\ queries[KeyOf(ep)].status = "fulfilled"
        /\ NoRefetchRequested(f, s))
       => /\ queries'[KeyOf(ep)] = queries[KeyOf(ep)]
          /\ baseQueryCalls' = baseQueryCalls
          /\ running' = running]_vars

\* C6 witness: with the api-wide default set to true, a subscribing dispatch
\* with forceRefetch false found the entry fulfilled and was served from it.
C6_Witness ==
  /\ cacheHit /\ config = JsBool(TRUE)
  /\ nextId = 3 /\ baseQueryCalls = 1
  /\ \E k \in Keys : /\ queries[k].status = "fulfilled" /\ IsDefined(queries[k].data)
                     /\ queries[k].requestId = 1 /\ 2 \in subscriptions[k]

\* C7: a query dispatch with forceRefetch true starts an execution when the
\* entry of its key is not pending, whatever its status, age or data, and
\* starts none when it is pending.
C7_ForceRefetch ==
  [][\A ep \in QueryEndpoints, s \in BOOLEAN :
       QueryDispatch(ep, NoArg, JsBool(TRUE), s)
       => IF queries[KeyOf(ep)].status # "pending"
          THEN /\ StartedFor(KeyOf(ep))
               /\ queries'[KeyOf(ep)].requestId = nextId
               /\ baseQueryCalls' = baseQueryCalls + 1
          ELSE /\ running' = running
               /\ baseQueryCalls' = baseQueryCalls
               /\ queries' = queries]_vars

\* C7 witness: a forced dispatch has just restarted a fulfilled entry.
C7_Witness ==
  \E k \in Keys : /\ queries[k].status = "pending" /\ queries[k].fulfilledTimeStamp = now
                  /\ IsDefined(queries[k].data)
                  /\ \E e \in QueryExecs(running, k) :
                       e.id = queries[k].requestId /\ e.origin = "caller"

\* C8 (as stated): with a numeric threshold n >= 0 and a fulfilled entry, the
\* query executes exactly when (now - fulfilledTimeStamp) / 1000 >= n.
C8_ThresholdIncludingZero ==
  [][\A ep \in QueryEndpoints, s \in BOOLEAN, f \in {v \in ForceVals : v.t = "num"} :
       (QueryDispatch(ep, NoArg, f, s) /\ queries[KeyOf(ep)].status = "fulfilled")
       => (StartedFor(KeyOf(ep))
           <=> (now - queries[KeyOf(ep)].fulfilledTimeStamp) * FixedPoint >= f.n * MsPerSecond)]_vars

\* C9: every mutation dispatch starts exactly one execution and makes exactly
\* one transport call, whatever is cached or in flight.
C9_MutationAlwaysRuns ==
  [][\A ep \in MutationEndpoints : \A a \in ArgsOf(ep) :
       MutationDispatch(ep, a)
       => /\ baseQueryCalls' = baseQueryCalls + 1
          /\ Cardinality(running') = Cardinality(running) + 1
          /\ \E e \in running' \ running :
               /\ e.thunk = "mutation" /\ e.endpointName = ep /\ e.originalArgs = a
               /\ e.id = nextId]_vars

\* C9 witness: two dispatches of the same mutation with the same argument, the
\* second while the first is in flight: two executions, two transport calls.
C9_Witness ==
  /\ \E e1, e2 \in Mutations(running) :
       e1.id # e2.id /\ e1.endpointName = e2.endpointName /\ e1.originalArgs = e2.originalArgs
  /\ baseQueryCalls = 2 /\ nextId = 3

\* C10: when a mutation is rejected with an error payload, its invalidates
\* descriptor is evaluated with no result and that payload, and the cached
\* queries whose provided tags intersect the outcome are refetched by the rule
\* that applies to a fulfilled mutation; the others are left alone.
C10_RejectedMutationInvalidates ==
  [][\A e \in Mutations(running), r \in TransportResults :
       (r.kind = "error" /\ Resolved(e) /\ MutationResolve(e, r))
       => \A k \in Keys :
            IF queries[k].exists /\ Intersects(InvalidatedBy(e, r), provided[k])
            THEN IF queries[k].status = "pending"
                 THEN queries'[k] = queries[k] /\ NothingStartedFor(k)
                 ELSE StartedFor(k)
            ELSE queries'[k] = queries[k] /\ NothingStartedFor(k)]_vars

\* C10 witness: a rejected mutation has just restarted a cached query.
C10_Witness ==
  \E k \in Keys :
    /\ queries[k].status = "pending"
    /\ \E e \in QueryExecs(running, k) : e.id = queries[k].requestId /\ e.origin = "error"

\* C11: when a mutation's terminal action invalidates tags that intersect the
\* tags provided by a cache entry that has no subscriber at that moment, the
\* entry is refetched in the same step, however fresh it is and whatever the
\* api-wide refetch policy says (only an entry that is already pending is not
\* started a second time).
C11_InvalidationRefetchesUnsubscribed ==
  [][\A e \in Mutations(running) : Resolved(e) =>
       \A r \in TransportResults : MutationResolve(e, r) =>
         \A k \in KeysOf(api) :
           (/\ queries[k].exists /\ queries[k].status # "pending"
            /\ subscriptions[k] = {}
            /\ Intersects(InvalidatedBy(e, r), provided[k]))
           => StartedFor(k)]_vars

\* a fulfilled entry that never had a subscriber, and is as fresh as can be, is
\* being refetched on behalf of an invalidation
C11_Witness ==
  \E e \in Queries(running) :
    /\ e.origin # "caller" /\ IsCurrent(e)
    /\ subscriptions[e.queryCacheKey] = {} /\ ~evictTimer[e.queryCacheKey]
    /\ queries[e.queryCacheKey].fulfilledTimeStamp = now
    /\ queries[e.queryCacheKey].startedTimeStamp = now

ProvidesOf(e, r) ==
  Range(calculateProvidedBy(e.endpointName, "provides",
                            IF r.kind = "data" THEN r.data ELSE Undefined,
                            r.error, e.originalArgs))
\* no query execution of key k leaves flight in this step
NoneResolvedFor(k) == \A e \in QueryExecs(running, k) : ~Resolved(e)

\* C13 (as stated): the tags of a cache key in the provided-tag index are those
\* computed at the key's most recent fulfillment: the fulfillment the entry was
\* waiting for replaces the set, and every other step that keeps the entry (a
\* dispatch that makes it pending, a rejected execution) leaves the set as it was.
C13_ProvidedOnlyFromFulfillment ==
  [][/\ \A e \in Queries(running) : Resolved(e) =>
          \A r \in TransportResults : QueryResolve(e, r) =>
            provided'[e.queryCacheKey] =
              IF r.kind = "data" /\ IsCurrent(e) THEN ProvidesOf(e, r)
              ELSE provided[e.queryCacheKey]
     /\ \A k \in KeysOf(api) :
          (NoneResolvedFor(k) /\ queries'[k].exists) => provided'[k] = provided[k]]_vars

\* C13 (amended): the fulfillment the entry was waiting for replaces the set
\* (nothing accumulates); a rejection with an error value that the entry was
\* waiting for keeps the set and adds the tags the descriptor yields for an
\* undefined result and that error; a thrown failure removes no tag; a
\* response the entry was not waiting for, and every other step that keeps the
\* entry, leave the set as it was.
C13_ProvidedReplacedOrExtended ==
  [][/\ \A e \in Queries(running) : Resolved(e) =>
          \A r \in TransportResults : QueryResolve(e, r) =>
            LET k == e.queryCacheKey
            IN CASE ~IsCurrent(e) -> provided'[k] = provided[k]
                 [] IsCurrent(e) /\ r.kind = "data" -> provided'[k] = ProvidesOf(e, r)
                 [] IsCurrent(e) /\ r.kind = "error" ->
                      provided'[k] = provided[k] \cup ProvidesOf(e, r)
                 [] OTHER -> provided[k] \subseteq provided'[k]
     /\ \A k \in KeysOf(api) :
          (NoneResolvedFor(k) /\ queries'[k].exists) => provided'[k] = provided[k]]_vars

\* checkSession was rejected with an error value without ever having fulfilled,
\* and its key is in the index under the tag of its static list
C13_Witness ==
  LET k == KeyOf("checkSession")
  IN /\ queries[k].status = "rejected" /\ queries[k].fulfilledTimeStamp = 0
     /\ queries[k].error \in {Some(v) : v \in ErrorVals}
     /\ provided[k] = {[type |-> "User", id |-> NoId]}

\* positions of the events of kind ev in trace tr
At(tr, ev) == {i \in 1..Len(tr) : tr[i].ev = ev}
\* the executions in flight of endpoints that declare hooks
Hooked(run) == {e \in run : HasHooks(e.endpointName)}
\* this step settles execution e with outcome r
Settles(e, r) == Resolved(e) /\ (QueryResolve(e, r) \/ MutationResolve(e, r))

C15_ThrowRejectsWithoutPayload ==
  [][\A e \in Hooked(running) : \A r \in TransportResults :
       (r.kind = "throw" /\ Settles(e, r)) =>
         /\ trace'.requestId = e.id /\ trace'.type = "rejected"
         /\ ~trace'.withValue /\ trace'.payload = Undefined
         /\ running' = running \ {e}
         /\ baseQueryCalls' = baseQueryCalls
         /\ (e.thunk = "query" /\ IsCurrent(e)) =>
               /\ queries'[e.queryCacheKey].status = "rejected"
               /\ queries'[e.queryCacheKey].error = Some(GenericError)]_vars

\* the response transform of the query threw after onSuccess had been called:
\* onError was handed the thrown value, the entry is rejected with the generic
\* error, and nothing is in flight
C15_Witness ==
  /\ queries[KeyOf("query")].status = "rejected"
  /\ queries[KeyOf("query")].error = Some(GenericError)
  /\ running = {}
  /\ trace.requestId = queries[KeyOf("query")].requestId
  /\ Len(trace.events) = 4
  /\ trace.events[3].ev = "onSuccess" /\ trace.events[4].ev = "onError"
  /\ trace.events[4].value = Some(ThrownError) /\ trace.events[4].meta = Undefined

\* in trace tr onStart was called exactly once and before everything else
OnStartFirst(tr) == Cardinality(At(tr, "onStart")) = 1 /\ tr[1].ev = "onStart"
\* in trace tr every call of hook ev comes after the call of the transport
AfterTransport(tr, ev) == \A i \in At(tr, ev) : \E j \in At(tr, "baseQuery") : j < i

OwnContext(tr, id) ==
  \A i \in 1..Len(tr) :
    /\ tr[i].ev = "onStart" => tr[i].context = {}
    /\ tr[i].ev \in {"onSuccess", "onError"} => tr[i].context = {id}

\* C17: every execution has a context object of its own: onStart finds it
\* empty, onSuccess and onError of the execution find in it exactly what its
\* onStart wrote (the execution's request id) and nothing another execution
\* wrote, and no two executions in flight hold the same object.
C17_ContextPerExecution ==
  /\ \A e \in Hooked(running) :
       OwnContext(e.trace, e.id) /\ Contents(contexts, e.context) = {e.id}
  /\ OwnContext(trace.events, trace.requestId)
  /\ \A e1 \in running : \A e2 \in running \ {e1} : e1.context # e2.context

\* two executions of the same mutation were in flight together; the first has
\* settled, its onSuccess found only its own value in the context although
\* the onStart of the second had written by then
C17_Witness ==
  /\ trace.requestId = 1 /\ trace.endpointName = "mutation" /\ trace.concurrent = {2}
  /\ \E e \in running : e.id = 2 /\ e.endpointName = "mutation"
  /\ Len(trace.events) = 3 /\ trace.events[3].ev = "onSuccess"
  /\ trace.events[3].context = {1}
  /\ <<2, 2>> \in contexts

\* the types of the tags the descriptor of execution e yields at outcome r
TypesUsed(e, r) ==
  {t.type : t \in IF e.thunk = "query" THEN ProvidesOf(e, r) ELSE InvalidatedBy(e, r)}

\* C18: when the tags of an endpoint are asserted (provides at the terminal
\* action the entry waits for, invalidates at the terminal action of a
\* mutation; static list or function descriptor), an error message naming the
\* type is reported for every type that is not registered and for no other;
\* nothing throws: the entry leaves pending for the status the outcome alone
\* decides, registered or not.  A type added by enhanceEndpoints counts as
\* registered from then on.
C18_UnregisteredTypeReported ==
  [][/\ \A e \in running : \A r \in TransportResults : Settles(e, r) =>
          /\ (e.thunk = "mutation" \/ IsCurrent(e)) =>
                reported' = reported \cup (TypesUsed(e, r) \ entityTypes)
          /\ (e.thunk = "query" /\ IsCurrent(e)) =>
                queries'[e.queryCacheKey].status =
                  IF r.kind = "data" THEN "fulfilled" ELSE "rejected"
          /\ entityTypes' = entityTypes
     /\ \A types \in AddedEntityTypes : EnhanceEndpoints(types) =>
          types \subseteq entityTypes' /\ reported' = reported]_vars

\* provideWrongTypeString has fulfilled while Users was not registered, and
\* the message naming Users was reported
C18_Witness ==
  /\ queries[KeyOf("provideWrongTypeString")].status = "fulfilled"
  /\ reported = {"Users"}
  /\ entityTypes = {"User"}

\* C19: a prefetch with force: true starts an execution for the key whatever
\* the cache holds for it (no entry, a fulfilled entry of any age, a rejected
\* entry), except while the entry of the key is pending: then nothing is
\* started and the transport is not called again.
C19_ForcedPrefetch ==
  [][\A ep \in QueryEndpointsOf(api), o \in PrefetchOptionVals :
       (Forced(o) /\ Prefetch(ep, NoArg, o)) =>
          IF queries[KeyOf(ep)].status = "pending"
          THEN NothingStartedFor(KeyOf(ep)) /\ baseQueryCalls' = baseQueryCalls
          ELSE StartedFor(KeyOf(ep))]_vars
\* a forced prefetch is in flight for an entry that was fulfilled at this very
\* moment
C19_Witness ==
  \E e \in running :
     /\ e.origin = "prefetch(force)"
     /\ IsCurrent(e)
     /\ queries[e.queryCacheKey].fulfilledTimeStamp = now

\* C20: a prefetch without options starts an execution exactly when the key
\* was never fetched successfully and is not pending; on a fulfilled entry it
\* performs no query and leaves the entry as it is.
C20_PlainPrefetch ==
  [][\A ep \in QueryEndpointsOf(api) :
       Prefetch(ep, NoArg, NoOptions) =>
          /\ StartedFor(KeyOf(ep)) <=>
                (queries[KeyOf(ep)].fulfilledTimeStamp = 0
                   /\ queries[KeyOf(ep)].status # "pending")
          /\ queries[KeyOf(ep)].status = "fulfilled" =>
                /\ queries'[KeyOf(ep)] = queries[KeyOf(ep)]
                /\ baseQueryCalls' = baseQueryCalls
                /\ running' = running]_vars
\* a prefetch without options is in flight for a key that was never fetched
\* successfully
C20_Witness ==
  \E e \in running :
     /\ e.origin = "prefetch()"
     /\ IsCurrent(e)
     /\ queries[e.queryCacheKey].fulfilledTimeStamp = 0

\* the options of a prefetch with a numeric ifOlderThan and no force
NumericAge(o) == o.ifOlderThan.t = "num" /\ ~Truthy(o.force)

\* C21 (as stated): a prefetch with a numeric ifOlderThan = n >= 0 and no force
\* on a key that is not pending starts an execution exactly when the key was
\* never fulfilled or (now - fulfilledTimeStamp) / 1000 >= n, 0 included; when
\* it starts none the entry is left as it is.
C21_PrefetchIfOlderThanIncludingZero ==
  [][\A ep \in QueryEndpointsOf(api), o \in {v \in PrefetchOptionVals : NumericAge(v)} :
       (Prefetch(ep, NoArg, o) /\ queries[KeyOf(ep)].status # "pending")
       => /\ StartedFor(KeyOf(ep))
               <=> \/ queries[KeyOf(ep)].fulfilledTimeStamp = 0
                   \/ (now - queries[KeyOf(ep)].fulfilledTimeStamp) * FixedPoint
                         >= o.ifOlderThan.n * MsPerSecond
          /\ ~StartedFor(KeyOf(ep)) => queries'[KeyOf(ep)] = queries[KeyOf(ep)]]_vars

\* C22: updateQueryResult for a key without a cache entry returns empty patch
\* lists, does not call the recipe, dispatches nothing and leaves the cache
\* as it is; patchQueryResult for such a key leaves the cache as it is too,
\* so no entry is created.
C22_NoEntryNoPatch ==
  [][/\ \A ep \in QueryEndpointsOf(api), r \in Recipes :
          (queries[KeyOf(ep)].status = "uninitialized" /\ UpdateQueryResult(ep, NoArg, r))
          => /\ Len(patched'.ret.patches) = 0 /\ Len(patched'.ret.inversePatches) = 0
             /\ patched'.recipeCalls = 0
             /\ patched'.dispatched = 0
             /\ queries' = queries
     /\ \A ep \in QueryEndpointsOf(api), p \in PatchInputs :
          (~queries[KeyOf(ep)].exists /\ PatchQueryResult(ep, NoArg, p))
          => queries' = queries]_vars
\* an updateQueryResult found no entry, after the key had been fetched and
\* evicted
C22_Witness ==
  /\ patched.called /\ patched.dispatched = 0
  /\ baseQueryCalls > 0
  /\ \E k \in KeysOf(api) : ~queries[k].exists

\* C23: updateQueryResult on cached data d with recipe r makes the data r(d),
\* its forward patches lead from d to r(d), and patchQueryResult with the
\* inverse patches it returned restores d, for an array and for a number.
C23_UpdateRoundTrip ==
  [][\A ep \in QueryEndpointsOf(api), r \in Recipes :
       (IsDefined(queries[KeyOf(ep)].data) /\ UpdateQueryResult(ep, NoArg, r))
       => LET d == queries[KeyOf(ep)].data[1]
          IN /\ queries'[KeyOf(ep)].data = Some(updateRecipe(r, d))
             /\ applyPatches(d, patched'.ret.patches) = updateRecipe(r, d)
             /\ patchQueryResult(queries', ep, NoArg, patched'.ret.inversePatches)
                  = queries]_vars
\* an update that changed the cached array has been rolled back
C23_Witness ==
  /\ patched.recipeCalls = 1
  /\ IsDefined(patched.base)
  /\ isDraftable(patched.base[1])
  /\ applyPatches(patched.base[1], patched.ret.patches) # patched.base[1]
  /\ \E k \in KeysOf(api) : queries[k].data = patched.base

\* the result the claim expects of a successful execution: the response
\* merged with the meta for the two endpoints that declare a transform, the
\* response itself for echo
Transformed(ep, r) ==
  IF ep \in {"queryWithMeta", "mutationWithMeta"} THEN Some(r.data[1] \cup {MetaKey})
  ELSE r.data

\* C27: when the transport of a query or mutation returns data, the execution
\* is fulfilled with transformResponse(data, meta), or with the data when the
\* endpoint declares no transform; for a query that is what the entry stores,
\* also when the transform is asynchronous.
C27_TransformedResult ==
  [][\A e \in running, r \in TransportResults :
       (r.kind = "data" /\ Settles(e, r))
       => /\ trace'.requestId = e.id
          /\ trace'.type = "fulfilled"
          /\ trace'.payload = Transformed(e.endpointName, r)
          /\ (e.thunk = "query" /\ IsCurrent(e))
               => /\ queries'[e.queryCacheKey].status = "fulfilled"
                  /\ queries'[e.queryCacheKey].data = Transformed(e.endpointName, r)]_vars
\* the entry of queryWithMeta holds the transformed result of its last
\* execution
C27_Witness ==
  /\ trace.endpointName = "queryWithMeta"
  /\ trace.type = "fulfilled"
  /\ MetaKey \in trace.payload[1]
  /\ queries[KeyOf("queryWithMeta")].status = "fulfilled"
  /\ queries[KeyOf("queryWithMeta")].data = trace.payload

\* C30 (as stated): a query dispatch that asks for no refetch executes
\* whenever the entry of its key is neither pending nor fulfilled, a rejected
\* entry that was fulfilled before and keeps its fulfilledTimeStamp included.
C30_RunsUnlessPendingOrFulfilled ==
  [][\A ep \in QueryEndpointsOf(api), s \in BOOLEAN, f \in {JsUndef, JsBool(FALSE)} :
       (QueryDispatch(ep, NoArg, f, s)
          /\ queries[KeyOf(ep)].status \notin {"pending", "fulfilled"})
       => StartedFor(KeyOf(ep))]_vars

\* this step is a dispatch that subscribes to k
Subscribes(k) ==
  \E ep \in QueryEndpointsOf(api), f \in ForceVals :
     KeyOf(ep) = k /\ QueryDispatch(ep, NoArg, f, TRUE)
\* this step removes a subscription of k
Unsubscribes(k) == \E id \in subscriptions[k] : Unsubscribe(k, id)

\* C25: the subscriber count of a key goes up by one with every subscription
\* added and down by one with every subscription removed, and changes in no
\* other step; removing the last subscriber starts the eviction timer and
\* leaves the entry and its data alone; only the timer removes an entry, and
\* only one without subscribers; a subscription added while the timer runs
\* is served by the entry, which the timer then spares.
C25_SubscriberCount ==
  [][\A k \in KeysOf(api) :
       /\ Cardinality(subscriptions'[k]) - Cardinality(subscriptions[k])
            = (IF Subscribes(k) THEN 1 ELSE 0) - (IF Unsubscribes(k) THEN 1 ELSE 0)
       /\ Unsubscribes(k)
            => /\ queries' = queries
               /\ subscriptions'[k] = {} => evictTimer'[k]
       /\ (queries[k].exists /\ ~queries'[k].exists)
            => (Evict(k) /\ subscriptions[k] = {})
       /\ (Evict(k) /\ subscriptions[k] # {}) => queries' = queries
       /\ \A f \in {JsUndef, JsBool(FALSE)} :
            (evictTimer[k] /\ queries[k].status = "fulfilled"
               /\ QueryDispatch(EndpointOfKey(k), NoArg, f, TRUE))
            => (queries' = queries /\ baseQueryCalls' = baseQueryCalls)]_vars
\* the last subscriber of a fulfilled entry left, the timer is running, and a
\* new subscriber has been served from the entry
C25_Witness ==
  \E k \in KeysOf(api) :
     /\ evictTimer[k]
     /\ subscriptions[k] # {}
     /\ queries[k].status = "fulfilled"
     /\ cacheHit

\* the intervals other than 0 of the subscriptions of k
NonZeroIntervals(k) == {x.options.pollingInterval : x \in subscriptionOptions[k]} \ {0}

\* C24: for every cache key the options are those of its current
\* subscriptions, the effective polling interval is the least of their
\* intervals other than 0 (0, no polling, when there is none), and the
\* effective refetch-on-reconnect and refetch-on-focus flags are the OR of
\* theirs.
C24_MergedSubscriptionOptions ==
  \A k \in KeysOf(api) :
     /\ {x.id : x \in subscriptionOptions[k]} = subscriptions[k]
     /\ IF NonZeroIntervals(k) = {}
        THEN effective[k].pollingInterval = 0
        ELSE /\ effective[k].pollingInterval \in NonZeroIntervals(k)
             /\ \A p \in NonZeroIntervals(k) : effective[k].pollingInterval <= p
     /\ effective[k].refetchOnReconnect
          <=> \E x \in subscriptionOptions[k] : x.options.refetchOnReconnect
     /\ effective[k].refetchOnFocus
          <=> \E x \in subscriptionOptions[k] : x.options.refetchOnFocus
\* a key with two subscriptions, one that does not poll and one that does,
\* one that refetches on reconnect and another that refetches on focus
C24_Witness ==
  \E k \in KeysOf(api) :
     \E x, y \in subscriptionOptions[k] :
        /\ x.options.pollingInterval = 0 /\ y.options.pollingInterval # 0
        /\ x.options.refetchOnReconnect /\ ~y.options.refetchOnReconnect
        /\ y.options.refetchOnFocus /\ ~x.options.refetchOnFocus
        /\ effective[k] = SubscriptionOptions(y.options.pollingInterval, TRUE, TRUE)

\* C26: the key derived for an endpoint and an argument is the key of every
\* structurally equal argument, whatever the order its properties were
\* inserted in at any depth, and is the key of no argument of an endpoint of
\* another name.
C26_SerializerStable ==
  serialized.called =>
    /\ serialized.key = defaultSerializeQueryArgs(serialized.endpointName, serialized.queryArgs)
    /\ \A a \in QueryArgs :
          StructurallyEqual(a, serialized.queryArgs)
          => defaultSerializeQueryArgs(serialized.endpointName, a) = serialized.key
    /\ \A e \in EndpointNames \ {serialized.endpointName}, a \in QueryArgs :
          defaultSerializeQueryArgs(e, a) # serialized.key
\* the key of an argument whose properties, and those of an object nested in
\* it, were inserted out of order has been derived
C26_Witness ==
  /\ serialized.called
  /\ \E v \in Numbers :
       serialized.queryArgs =
         PlainObject(<<Prop("b", PlainObject(<<Prop("b", v), Prop("a", v)>>)), Prop("a", v)>>)

\* this step is a render of the component
Renders ==
  \/ \E skip \in BOOLEAN, f \in ForceVals : Mount(skip, f)
  \/ \E skip \in BOOLEAN : SetSkip(skip)
  \/ Rerender
\* a request for the argument of k is in flight
InFlight(k) == QueryExecs(running, k) # {}
\* the entry of k holds data, or the last result of the component does
DataAvailable(k) ==
  \/ IsDefined(queries[k].data)
  \/ IsDefined(component'.lastValue) /\ IsDefined(component'.lastValue[1].data)

\* C28: what a render of useQuery without skip returns has isFetching true
\* exactly when a request for the argument is in flight, and isLoading true
\* exactly when isFetching is true and neither the entry nor the last result
\* holds data; so isLoading implies isFetching, and while an entry that has
\* data is refetched isFetching is true and isLoading false.
C28_LoadingAndFetching ==
  [][(Renders /\ ~component'.skip) =>
       LET r == component'.currentState[1]
       IN /\ r.isFetching <=> InFlight(HookKey)
          /\ r.isLoading <=> (r.isFetching /\ ~DataAvailable(HookKey))
          /\ r.isLoading => r.isFetching
          /\ (InFlight(HookKey) /\ IsDefined(queries[HookKey].data))
               => (r.isFetching /\ ~r.isLoading)]_vars

\* C29: a component whose skip has been true since it mounted holds no promise
\* and is rendered with status uninitialized and no data, whatever the cache
\* holds, and its effects dispatch nothing; the effects of the first render
\* without skip dispatch the query with a subscription, and the run condition,
\* evaluated with refetchOnMountOrArgChange at that moment, decides whether an
\* execution starts or the cache table is left as it is.
C29_SkippedHook ==
  [][/\ (component'.mounted /\ component'.skippedSinceMount)
          => /\ component'.promise = NoId
             /\ component'.currentState[1].status = "uninitialized"
             /\ component'.currentState[1].isUninitialized
             /\ component'.currentState[1].data = Undefined
     /\ (RunEffects /\ component.skip)
          => UNCHANGED <<queries, subscriptions, running, nextId, log, baseQueryCalls>>
     /\ (RunEffects /\ ~component.skip /\ component.promise = NoId)
          => /\ component'.promise = nextId
             /\ nextId' = nextId + 1
             /\ subscriptions'[HookKey] = subscriptions[HookKey] \cup {nextId}
             /\ IF condition(queries[HookKey], config, component.refetchOnMountOrArgChange,
                             TRUE, now)
                THEN StartedFor(HookKey)
                ELSE UNCHANGED <<queries, running, baseQueryCalls>>]_vars
\* the effects of a component that has skipped since it mounted have run while
\* the cache holds a fulfilled entry for its argument
C29_Witness ==
  /\ component.mounted /\ component.skippedSinceMount /\ ~component.effects
  /\ queries[HookKey].status = "fulfilled"
  /\ IsDefined(queries[HookKey].data)

\* the refetch policy of a dispatch: its own forceRefetch when it gives one,
\* else the api-wide default when it subscribes, else none
Policy(f, s) == IF f # JsUndef THEN f ELSE IF s THEN config ELSE JsUndef

\* C31: on a fulfilled entry a query dispatch whose own forceRefetch is a
\* boolean, or that gives none, starts an execution exactly when its policy is
\* true, the policy being its own value when it gives one (false included) and
\* the api-wide refetchOnMountOrArgChange only when it gives none and
\* subscribes; otherwise the cache table is left as it is.
C31_OwnValueBeforeDefault ==
  [][\A ep \in QueryEndpointsOf(api), s \in BOOLEAN,
        f \in {JsUndef, JsBool(FALSE), JsBool(TRUE)} :
       (QueryDispatch(ep, NoArg, f, s) /\ queries[KeyOf(ep)].status = "fulfilled")
       => IF Policy(f, s) = JsBool(TRUE)
          THEN StartedFor(KeyOf(ep))
          ELSE queries' = queries /\ running' = running
               /\ baseQueryCalls' = baseQueryCalls]_vars
\* with the api-wide default true, a second, subscribing dispatch is
\* refetching an entry that was fulfilled before
C31_Witness ==
  /\ config = JsBool(TRUE)
  /\ \E k \in KeysOf(api) :
       /\ queries[k].status = "pending" /\ queries[k].fulfilledTimeStamp # 0
       /\ queries[k].requestId \in subscriptions[k]
       /\ queries[k].requestId > 1

\* the raw descriptions a descriptor of the endpoint yields for the inputs
RawDescriptions(c) ==
  CASE DescriptorKind(c.endpointName, c.which) = "function" ->
         DescriptorFn(c.endpointName, c.result, c.error, c.queryArg)
    [] DescriptorKind(c.endpointName, c.which) = "list" -> DescriptorList(c.endpointName)
    [] OTHER -> <<>>

\* C32: calculateProvidedBy returns, for a function descriptor, the list got by
\* invoking it exactly once with (result, error, arg), each bare string s
\* replaced by {type: s} and each object kept, in the same order and of the
\* same length; for a static list the same expansion with no invocation; for
\* an absent descriptor the empty list; every returned tag went through the
\* type-registration check.
C32_ProvidedBy ==
  calculated.called =>
    LET raw == RawDescriptions(calculated)
        kind == DescriptorKind(calculated.endpointName, calculated.which)
        tags == calculated.tags
    IN /\ Len(tags) = Len(raw)
       /\ \A i \in 1..Len(raw) :
            /\ tags[i].type = raw[i].type
            /\ tags[i].id = IF raw[i].str THEN NoId ELSE raw[i].id
       /\ calculated.invoked =
            IF kind = "function"
            THEN <<[result |-> calculated.result, error |-> calculated.error,
                    queryArg |-> calculated.queryArg]>>
            ELSE <<>>
       /\ kind = "absent" => tags = <<>>
       /\ reported = {tags[i].type : i \in 1..Len(tags)} \ entityTypes
C32_Witness ==
  /\ calculated.called
  /\ calculated.endpointName = "getPosts"
  /\ calculated.tags = <<[type |-> "Posts", id |-> 1], [type |-> "Posts", id |-> 2]>>
  /\ Len(calculated.invoked) = 1

\* C40: for any sequence of setupListeners calls with the default handler and
\* of calls of the unsubscribe functions they returned, at most one handler per
\* window event is registered, and once every returned unsubscribe function
\* has been called no handler remains registered.
C40_OneHandlerPerEvent ==
  /\ \A e \in WindowEvents : Cardinality(listeners.registered[e]) <= 1
  /\ (listeners.returned # {} /\ listeners.returned \subseteq listeners.unsubscribed)
       => \A e \in WindowEvents : listeners.registered[e] = {}

\* the subscriptions the store holds for the keys of the api
HookSubscriptions == UNION {subscriptions[k] : k \in KeysOf(api)}

\* C33: a lazy-query hook instance holds at most one active subscription at any
\* time: every trigger after the first dispatches exactly one unsubscribe for
\* the previous subscription (also when the argument is the same) before
\* creating the new one, unmounting dispatches one more, and the first trigger
\* none; after k >= 1 triggers followed by unmount exactly k unsubscribes have
\* been dispatched and no subscription of the instance remains.
C33_LazySubscription ==
  /\ Cardinality(HookSubscriptions) <= 1
  /\ IF component.triggers = 0
     THEN component.unsubscribes = 0 /\ HookSubscriptions = {}
     ELSE IF component.mounted
     THEN /\ component.unsubscribes = component.triggers - 1
          /\ subscriptions[KeyOfArg(component.promiseArg)] = {component.promise}
     ELSE /\ component.unsubscribes = component.triggers
          /\ HookSubscriptions = {}
\* three triggers, the last two with the same argument, then unmount
C33_Witness ==
  /\ ~component.mounted
  /\ component.triggers = 3 /\ component.unsubscribes = 3
  /\ queries[KeyOfArg(1)].exists /\ queries[KeyOfArg(2)].exists
  /\ queries[KeyOfArg(2)].requestId = 1

\* C39: a useQuery/useQuerySubscription hook instance holds at most one active
\* subscription at any time, none whenever its skip option is true (also when
\* skip turns true after the hook had subscribed) and none after unmount; when
\* its argument changes it unsubscribes from the old key before subscribing to
\* the new one.
C39_HookSubscription ==
  /\ [](/\ Cardinality(HookSubscriptions) <= 1
        /\ (component.mounted /\ component.skip /\ ~component.effects)
             => HookSubscriptions = {}
        /\ ~component.mounted => HookSubscriptions = {})
  /\ [][(RunEffects /\ ~component.skip /\ component.promise # NoId
            /\ component.promiseArg # component.arg)
         => /\ subscriptions'[KeyOfArg(component.promiseArg)] = {}
            /\ subscriptions'[HookKey] = {nextId}
            /\ component'.unsubscribes = component.unsubscribes + 1]_vars

\* a step of the store is what prefetchThunk does with the given options
PrefetchedWith(options) ==
  \E b \in BuilderOutcomes(HookEndpoint) :
  \E st \in {prefetchThunk(Bundle, HookEndpoint, NoArg, options, b)} :
     /\ queries' = st.q
     /\ subscriptions' = st.subs
     /\ nextId' = st.nid
     /\ baseQueryCalls' = st.calls

\* C34 (as stated): with prefetch options given at the declaration of
\* usePrefetch and at the call site, the fetch decision follows the option
\* given at the call site, not a different option kind declared as default; a
\* default applies only when the call site gives no option.
C34_CallSiteFirst ==
  [][\A o \in SingleOptionVals :
       UsePrefetch(NoArg, o)
       => PrefetchedWith(IF o = NoOptions THEN component.defaultOptions ELSE o)]_vars

\* C34 (amended): the options are merged name by name: force is the call
\* site's when it names force, else the declared one, and likewise
\* ifOlderThan; the fetch decision is that of the merged options, so a
\* declared option is overridden only by a call-site option of the same name.
C34_MergedByName ==
  [][\A o \in SingleOptionVals :
       UsePrefetch(NoArg, o)
       => PrefetchedWith(Options(IF o.force # JsUndef THEN o.force
                                 ELSE component.defaultOptions.force,
                                 IF o.ifOlderThan # JsUndef THEN o.ifOlderThan
                                 ELSE component.defaultOptions.ifOlderThan))]_vars
\* declared with force: true and called with ifOlderThan: 0.5 on an entry
\* fulfilled at this very moment: the entry is being fetched again
C34_Witness ==
  /\ component.defaultOptions = Options(JsBool(TRUE), JsUndef)
  /\ component.options = Options(JsUndef, JsNum(500))
  /\ \E e \in running :
        /\ IsCurrent(e)
        /\ queries[e.queryCacheKey].requestId = 2
        /\ queries[e.queryCacheKey].fulfilledTimeStamp = now

\* C38: updateQueryResult and patchQueryResult on an existing cache entry change
\* nothing but its data: status, error, requestId, startedTimeStamp,
\* fulfilledTimeStamp, subscriptions and provided tags are unchanged, no
\* transport call or lifecycle hook is triggered; when the entry exists but has
\* no data, updateQueryResult returns empty patch sets and leaves the entry.
C38_OnlyData ==
  [][\A ep \in QueryEndpointsOf(api) :
       LET k == KeyOf(ep)
       IN /\ (/\ queries[k].exists
              /\ \/ \E r \in Recipes : UpdateQueryResult(ep, NoArg, r)
                 \/ \E p \in PatchInputs : PatchQueryResult(ep, NoArg, p))
            => /\ queries' = [queries EXCEPT ![k].data = queries'[k].data]
               /\ UNCHANGED <<subscriptions, provided, evictTimer, running, baseQueryCalls,
                              nextId, log, trace, contexts>>
          /\ \A r \in Recipes :
               (queries[k].exists /\ ~IsDefined(queries[k].data)
                  /\ UpdateQueryResult(ep, NoArg, r))
               => /\ patched'.ret = PatchCollection(<<>>, <<>>)
                  /\ queries' = queries]_vars
\* the value of an entry that is being fetched again was updated by hand
C38_Witness ==
  \E k \in KeysOf(api) :
     /\ queries[k].status = "pending" /\ queries[k].fulfilledTimeStamp # 0
     /\ patched.called /\ Len(patched.ret.patches) > 0
     /\ IsDefined(patched.base) /\ queries[k].data # patched.base

\* C36 (as stated): within one execution onSuccess and onError are never both
\* invoked: onSuccess only when the transport returned data without error,
\* onError only when the transport returned an error or something threw before
\* the transport had returned.
C36_SuccessXorError ==
  [][\A e \in Hooked(running) : \A r \in TransportResults :
       Settles(e, r) =>
         LET tr == trace'.events
         IN /\ At(tr, "onSuccess") = {} \/ At(tr, "onError") = {}
            /\ At(tr, "onSuccess") # {} => (IsDefined(r.raw) /\ ~IsDefined(r.error))
            /\ At(tr, "onError") # {}
                 => \/ r.kind = "error"
                    \/ r.kind = "throw" /\ r.stage \in {"builder", "transport"}]_vars

\* C37: lifecycle hooks and the request builder run only for executions that
\* pass the run condition: a query dispatch the run condition rejects (entry
\* pending, or cached and not stale) invokes none of onStart, onSuccess,
\* onError, the request builder or the transport, so onStart is invoked once
\* for every execution started for a query endpoint and never otherwise.
C37_HooksOnlyWhenRun ==
  [][\A ep \in QueryEndpointsOf(api), f \in ForceVals, s \in BOOLEAN :
       QueryDispatch(ep, NoArg, f, s)
       => /\ (\/ queries[KeyOf(ep)].status = "pending"
              \/ ServedFromCache(queries[KeyOf(ep)], f, s))
            => NothingStartedFor(KeyOf(ep))
          /\ IF ~NothingStartedFor(KeyOf(ep))
             THEN \E e \in running' \ running :
                     /\ running' = running \cup {e}
                     /\ e.id = nextId /\ e.queryCacheKey = KeyOf(ep)
                     /\ HasHooks(ep) =>
                          /\ Cardinality(At(e.trace, "onStart")) = 1
                          /\ contexts' = contexts \cup {<<e.context, e.id>>}
                     /\ baseQueryCalls' = baseQueryCalls + (IF e.builder = "throw" THEN 0 ELSE 1)
             ELSE UNCHANGED <<running, contexts, baseQueryCalls, trace, queries>>]_vars
\* the first execution of the query is in flight, nothing has settled, and a
\* second dispatch was rejected by the run condition: one onStart, one
\* transport call
C37_Witness ==
  /\ trace = NoTrace /\ nextId = 3 /\ baseQueryCalls = 1
  /\ \E e \in Hooked(running) :
        /\ running = {e} /\ e.thunk = "query" /\ e.id = 1
        /\ contexts = {<<e.context, e.id>>}

\* the positions in the log of the thunk actions of the given types with
\* request id id, rejections by the run condition left out
Dispatched(id, types) ==
  {i \in 1..Len(log) : log[i].requestId = id /\ log[i].type \in types /\ ~log[i].condition}

\* C35: every execution that is started dispatches a pending action and
\* afterwards exactly one terminal action (fulfilled or rejected) with the same
\* requestId, never both and never twice; provided the transport eventually
\* returns, no cache entry and no mutation stays pending forever.
C35_PendingThenOneTerminal ==
  /\ [](nextId - 1 \in ExecutionIds \cup {0})
  /\ [](\A id \in ExecutionIds :
          LET p == Dispatched(id, {"pending"})
              t == Dispatched(id, {"fulfilled", "rejected"})
          IN /\ Cardinality(p) <= 1 /\ Cardinality(t) <= 1
             /\ \A j \in t : \E i \in p : i < j
             /\ id \in Ids(running) <=> (p # {} /\ t = {}))
  /\ \A k \in Keys : (queries[k].status = "pending") ~> (queries[k].status # "pending")
  /\ \A id \in ExecutionIds : (id \in Ids(running)) ~> (id \notin Ids(running))
\* the first execution was a query that has fulfilled, the second is a mutation
\* in flight
C35_Witness ==
  /\ Len(log) = 3
  /\ log[1].type = "pending" /\ log[2].type = "fulfilled" /\ log[3].type = "pending"
  /\ log[1].requestId = 1 /\ log[2].requestId = 1 /\ log[3].requestId = 2
  /\ \E e \in Mutations(running) : e.id = 2
  /\ \E k \in KeysOf(api) : queries[k].status = "fulfilled" /\ queries[k].requestId = 1
====
